---------------------------- MODULE Spec2Model ----------------------------
(***************************************************************************)
(* Model of the model-selection and forecast-assembly engine of the        *)
(* time-series forecasting project: the ARIMA / SARIMA order searches,     *)
(* the seasonal-period detector and the fit_forecast assemblers.           *)
(*                                                                         *)
(* The estimation backend (statsmodels ARIMA / SARIMAX, Prophet) and the   *)
(* pandas autocorrelation are external: each of their answers is drawn     *)
(* nondeterministically from a small set when the code asks for it.        *)
(***************************************************************************)
EXTENDS Integers, Sequences, FiniteSets, TLC

VARIABLES
    pc,                   \* position of the running operation
    args,                 \* arguments of the running operation
    cands,                \* the candidates the search loop iterates over
    i,                    \* 1-based position of the search loop in cands
    best_aic,             \* find_optimal_parameters: best_aic
    best_params,          \* ARIMA find_optimal_parameters: best_params
    best_order,           \* SARIMA find_optimal_parameters: best_order
    best_seasonal_order,  \* SARIMA find_optimal_parameters: best_seasonal_order
    log,                  \* the estimation calls made so far, with their outcomes
    ret,                  \* the value returned to the caller
    results,              \* the forecaster's self.results
    ncalls,               \* the calls made on the forecaster so far
    d_value,              \* make_stationary: d
    current_series,       \* make_stationary: current_series
    threads,              \* the requests being served, one per thread
    forecasters,          \* self.results of the module-level forecasters
    stream                \* the stream of the uploaded file

vars == <<pc, args, cands, i, best_aic, best_params, best_order,
          best_seasonal_order, log, ret, results, ncalls, d_value,
          current_series, threads, forecasters, stream>>

(***************************************************************************)
(* Bounds of the model.                                                    *)
(***************************************************************************)
MaxCands == 4      \* largest cross-product of one ARIMA search
MaxCombos == 5     \* largest number of combinations of one SARIMA search
MaxH == 2          \* largest forecast_periods of a fit_forecast call
SeriesLen == 3     \* number of observations of the series of a fit_forecast call
MaxCalls == 2      \* largest number of calls made on one forecaster
MaxRows == 3       \* largest number of rows of an uploaded CSV file

(***************************************************************************)
(* Python values.                                                          *)
(***************************************************************************)
\* None, and the empty tuple: both are falsy in `x if x else y`.
None == <<>>

\* None where a results dict is expected.
NoResults == [ok |-> FALSE]

\* A float is finite, +inf or NaN.
Fin(v) == [kind |-> "fin", v |-> v]
PosInf == [kind |-> "inf", v |-> 0]
NaN == [kind |-> "nan", v |-> 0]

\* a < b on floats: false when either is NaN, +inf is above every finite.
FloatLt(a, b) ==
    /\ a.kind = "fin"
    /\ \/ b.kind = "inf"
       \/ b.kind = "fin" /\ a.v < b.v

\* a == b on floats: NaN equals nothing.
FloatEq(a, b) ==
    /\ a.kind # "nan"
    /\ a.kind = b.kind
    /\ a.v = b.v

\* The AIC a fit can report: two finite values, so that fits can tie or
\* differ, +inf and NaN.
AicValues == {Fin(v) : v \in {1, 2}} \cup {PosInf, NaN}

\* What one estimation call (model.fit(), then .aic) can answer.
FitOutcomes ==
    {[raised |-> TRUE, aic |-> NaN]} \cup
    {[raised |-> FALSE, aic |-> a] : a \in AicValues}

(***************************************************************************)
(* itertools.product(range(0, a+1), range(0, b+1), range(0, c+1)): the     *)
(* first range is the outermost loop, the last the innermost.              *)
(***************************************************************************)
Product3(a, b, c) ==
    [k \in 1..((a + 1) * (b + 1) * (c + 1)) |->
        << (k - 1) \div ((b + 1) * (c + 1)),
           ((k - 1) \div (c + 1)) % (b + 1),
           (k - 1) % (c + 1) >>]

(***************************************************************************)
(* ARIMAForecaster.find_optimal_parameters                                 *)
(***************************************************************************)
\* `if aic < best_aic`
IsBetterAic(aic, best) == FloatLt(aic, best)

\* `except: continue`: the position of the loop after a fit that raised.
AfterRaiseBreak(pos, n) == n + 1
AfterRaise(pos, n) == pos + 1

\* the fallback of `best_params if best_params else (1, 1, 1)`
FallbackOrder == <<1, 1, 1>>

\* The size of the cross-product of the non-seasonal ranges.
CrossSize3(a) == (a.max_p + 1) * (a.max_d + 1) * (a.max_q + 1)

\* The searches of at most MaxCands candidates.
ArimaArgs ==
    LET all == {[family |-> "arima", max_p |-> a, max_d |-> b, max_q |-> c,
                 max_P |-> 0, max_D |-> 0, max_Q |-> 0,
                 seasonal_period |-> 0] :
                    a \in 0..MaxCands, b \in 0..MaxCands, c \in 0..MaxCands}
    IN  {a \in all : CrossSize3(a) <= MaxCands}

\* One pass of the `for p, d, q in itertools.product(...)` body.
ArimaFit ==
    /\ pc = "arima_loop"
    /\ i <= Len(cands)
    /\ \E out \in FitOutcomes :
        /\ log' = Append(log, [order |-> cands[i], seasonal_order |-> None,
                               raised |-> out.raised, aic |-> out.aic])
        /\ IF out.raised
             THEN /\ i' = AfterRaise(i, Len(cands))
                  /\ UNCHANGED <<best_aic, best_params>>
             ELSE /\ i' = i + 1
                  /\ IF IsBetterAic(out.aic, best_aic)
                       THEN /\ best_aic' = out.aic
                            /\ best_params' = cands[i]
                       ELSE UNCHANGED <<best_aic, best_params>>
    /\ UNCHANGED <<d_value, current_series, threads, forecasters, stream>>
    /\ UNCHANGED <<results, ncalls, pc, args, cands, best_order,
                   best_seasonal_order, ret>>

\* `return best_params if best_params else (1, 1, 1)`
ArimaReturn ==
    /\ pc = "arima_loop"
    /\ i > Len(cands)
    /\ ret' = IF best_params # None THEN best_params ELSE FallbackOrder
    /\ pc' = "done"
    /\ UNCHANGED <<d_value, current_series, threads, forecasters, stream>>
    /\ UNCHANGED <<results, ncalls, args, cands, i, best_aic, best_params,
                   best_order, best_seasonal_order, log>>

(***************************************************************************)
(* SARIMAForecaster.find_optimal_parameters                                *)
(***************************************************************************)
\* `if p + d + q <= 4`
NonSeasonalLimitStrict(p, d, q) == p + d + q < 4
NonSeasonalLimit(p, d, q) == p + d + q <= 4

\* `if P + D + Q <= 3`
SeasonalLimit(P, D, Q) == P + D + Q <= 3

\* The nested loops that fill param_combinations: the non-seasonal product
\* is the outer loop, the seasonal product the inner one, and a triple that
\* breaks its limit contributes nothing.
ParamCombinations(a) ==
    LET ns == SelectSeq(Product3(a.max_p, a.max_d, a.max_q),
                        LAMBDA t : NonSeasonalLimit(t[1], t[2], t[3]))
        ss == SelectSeq(Product3(a.max_P, a.max_D, a.max_Q),
                        LAMBDA t : SeasonalLimit(t[1], t[2], t[3]))
    IN  [k \in 1..(Len(ns) * Len(ss)) |->
            [order |-> ns[((k - 1) \div Len(ss)) + 1],
             seasonal_order |-> ss[((k - 1) % Len(ss)) + 1]
                                   \o <<a.seasonal_period>>]]

\* the fallback of `best_seasonal_order if best_seasonal_order else
\* (1, 1, 1, seasonal_period)`
FallbackSeasonalOrderDefault(seasonal_period) == <<1, 1, 1, 12>>
FallbackSeasonalOrder(seasonal_period) == <<1, 1, 1, seasonal_period>>

SeasonalPeriods == {7, 12}

\* The size of the unpruned cross-product of a SARIMA search.
CrossSizeNoD(a) == CrossSize3(a) * (a.max_P + 1) * (a.max_Q + 1)
CrossSize(a) == CrossSize3(a) * (a.max_P + 1) * (a.max_D + 1) * (a.max_Q + 1)

\* The searches of at most MaxCombos combinations (the sum rules remove at
\* most one value of a range that is the only one above zero).
SarimaArgs ==
    LET all == {[family |-> "sarima", max_p |-> a, max_d |-> b, max_q |-> c,
                 max_P |-> d, max_D |-> e, max_Q |-> f,
                 seasonal_period |-> s] :
                    a \in 0..MaxCombos, b \in 0..MaxCombos,
                    c \in 0..MaxCombos, d \in 0..MaxCombos,
                    e \in 0..MaxCombos, f \in 0..MaxCombos,
                    s \in SeasonalPeriods}
    IN  {a \in all : /\ CrossSize(a) <= MaxCombos + 1
                     /\ Len(ParamCombinations(a)) <= MaxCombos}

\* The two `for` loops that build param_combinations, before any fit.
SarimaBuild ==
    /\ pc = "sarima_build"
    /\ cands' = ParamCombinations(args)
    /\ pc' = "sarima_loop"
    /\ UNCHANGED <<d_value, current_series, threads, forecasters, stream>>
    /\ UNCHANGED <<results, ncalls, args, i, best_aic, best_params, best_order,
                   best_seasonal_order, log, ret>>

\* One pass of the `for order, seasonal_order in param_combinations` body.
SarimaFit ==
    /\ pc = "sarima_loop"
    /\ i <= Len(cands)
    /\ \E out \in FitOutcomes :
        /\ log' = Append(log, [order |-> cands[i].order,
                               seasonal_order |-> cands[i].seasonal_order,
                               raised |-> out.raised, aic |-> out.aic])
        /\ IF out.raised
             THEN /\ i' = AfterRaise(i, Len(cands))
                  /\ UNCHANGED <<best_aic, best_order,
                                 best_seasonal_order>>
             ELSE /\ i' = i + 1
                  /\ IF IsBetterAic(out.aic, best_aic)
                       THEN /\ best_aic' = out.aic
                            /\ best_order' = cands[i].order
                            /\ best_seasonal_order' = cands[i].seasonal_order
                       ELSE UNCHANGED <<best_aic, best_order,
                                        best_seasonal_order>>
    /\ UNCHANGED <<d_value, current_series, threads, forecasters, stream>>
    /\ UNCHANGED <<results, ncalls, pc, args, cands, best_params, ret>>

\* `return best_order if best_order else (1, 1, 1), best_seasonal_order if
\* best_seasonal_order else (1, 1, 1, seasonal_period)`
SarimaReturn ==
    /\ pc = "sarima_loop"
    /\ i > Len(cands)
    /\ ret' = << IF best_order # None THEN best_order ELSE FallbackOrder,
                 IF best_seasonal_order # None
                   THEN best_seasonal_order
                   ELSE FallbackSeasonalOrder(args.seasonal_period) >>
    /\ pc' = "done"
    /\ UNCHANGED <<d_value, current_series, threads, forecasters, stream>>
    /\ UNCHANGED <<results, ncalls, args, cands, i, best_aic, best_params,
                   best_order, best_seasonal_order, log>>

(***************************************************************************)
(* The order searches: one call of either find_optimal_parameters.         *)
(***************************************************************************)
InitSearch ==
    /\ \/ /\ args \in ArimaArgs
          /\ pc = "arima_loop"
          /\ cands = Product3(args.max_p, args.max_d, args.max_q)
       \/ /\ args \in SarimaArgs
          /\ pc = "sarima_build"
          /\ cands = <<>>
    /\ i = 1
    /\ best_aic = PosInf
    /\ best_params = None
    /\ best_order = None
    /\ best_seasonal_order = None
    /\ log = <<>>
    /\ ret = None
    /\ results = NoResults
    /\ ncalls = 0
    /\ d_value = 0
    /\ current_series = <<>>
    /\ threads = <<>>
    /\ forecasters = <<>>
    /\ stream = <<>>

NextSearch ==
    \/ ArimaFit
    \/ ArimaReturn
    \/ SarimaBuild
    \/ SarimaFit
    \/ SarimaReturn

SpecSearch == InitSearch /\ [][NextSearch]_vars

(***************************************************************************)
(* SARIMAForecaster.detect_seasonality                                     *)
(*                                                                         *)
(* A series is represented by its length and by its autocorrelation at     *)
(* each lag the detector may ask for, in hundredths; pandas answers NaN    *)
(* when the autocorrelation is undefined.  The autocorrelation at lag 1    *)
(* that the function computes first is never used.                         *)
(***************************************************************************)
\* `potential_periods = [4, 12, 24, 52]`
potential_periods == <<4, 12, 24, 52>>

\* `if period <= len(series) // 2`
PeriodFitsAlways(period, n) == TRUE
PeriodFits(period, n) == period <= n \div 2

\* `if abs(lag_autocorr) > 0.3`, in hundredths; false for NaN.
IsSignificantAtLeast(x) ==
    x.kind = "fin" /\ (IF x.v < 0 THEN -x.v ELSE x.v) >= 30
IsSignificant(x) ==
    x.kind = "fin" /\ (IF x.v < 0 THEN -x.v ELSE x.v) > 30

\* `return 12`
DefaultPeriod == 12

SeriesLengths == {0, 7, 8, 9, 23, 24, 25, 47, 48, 103, 104, 105, 200}
AcfValues == {Fin(v) : v \in {-90, -31, 0, 30, 31}} \cup {NaN}
Periods == {potential_periods[k] : k \in DOMAIN potential_periods}

DetectArgs ==
    [family : {"detect"}, n : SeriesLengths, max_period : {12, 24},
     acf : [Periods -> AcfValues]]

\* One pass of the `for period in potential_periods` body that goes on to
\* the next period: the period is skipped, or its autocorrelation is
\* computed and is not significant.
DetectStep ==
    /\ pc = "detect_loop"
    /\ i <= Len(potential_periods)
    /\ LET period == potential_periods[i]
       IN  IF PeriodFits(period, args.n)
             THEN /\ ~IsSignificant(args.acf[period])
                  /\ log' = Append(log, [period |-> period,
                                         lag_autocorr |-> args.acf[period]])
             ELSE log' = log
    /\ i' = i + 1
    /\ UNCHANGED <<d_value, current_series, threads, forecasters, stream>>
    /\ UNCHANGED <<results, ncalls, pc, args, cands, best_aic, best_params,
                   best_order, best_seasonal_order, ret>>

\* The pass that ends the loop: `return period`.
DetectFound ==
    /\ pc = "detect_loop"
    /\ i <= Len(potential_periods)
    /\ LET period == potential_periods[i]
       IN  /\ PeriodFits(period, args.n)
           /\ IsSignificant(args.acf[period])
           /\ log' = Append(log, [period |-> period,
                                  lag_autocorr |-> args.acf[period]])
           /\ ret' = period
    /\ pc' = "done"
    /\ UNCHANGED <<d_value, current_series, threads, forecasters, stream>>
    /\ UNCHANGED <<results, ncalls, args, cands, i, best_aic, best_params,
                   best_order, best_seasonal_order>>

\* The loop ran out of periods: `return 12`.
DetectDefault ==
    /\ pc = "detect_loop"
    /\ i > Len(potential_periods)
    /\ ret' = DefaultPeriod
    /\ pc' = "done"
    /\ UNCHANGED <<d_value, current_series, threads, forecasters, stream>>
    /\ UNCHANGED <<results, ncalls, args, cands, i, best_aic, best_params,
                   best_order, best_seasonal_order, log>>

InitDetect ==
    /\ args \in DetectArgs
    /\ pc = "detect_loop"
    /\ cands = <<>>
    /\ i = 1
    /\ best_aic = PosInf
    /\ best_params = None
    /\ best_order = None
    /\ best_seasonal_order = None
    /\ log = <<>>
    /\ ret = None
    /\ results = NoResults
    /\ ncalls = 0
    /\ d_value = 0
    /\ current_series = <<>>
    /\ threads = <<>>
    /\ forecasters = <<>>
    /\ stream = <<>>

NextDetect ==
    \/ DetectStep
    \/ DetectFound
    \/ DetectDefault

SpecDetect == InitDetect /\ [][NextDetect]_vars

(***************************************************************************)
(* fit_forecast: the data frame and the estimation engine.                 *)
(*                                                                         *)
(* Timestamps are whole hours.  A data frame is represented by its index:  *)
(* timestamps ("ts") or plain integers ("int").  The engine's answers are  *)
(* part of the call's arguments: whether fit() raises, whether the         *)
(* forecast raises, and the mean path it would forecast.                   *)
(***************************************************************************)
\* pd.Timedelta(days=1), and the step of the frequency 'D'
Day == 24

Last(seq) == seq[Len(seq)]

\* The sampling intervals of the regular series: hourly, daily, weekly.
Intervals == {1, Day, 7 * Day}

RegularIndex(step, n) ==
    [kind |-> "ts", times |-> [k \in 1..n |-> (k - 1) * step]]

\* Daily observations with the last one a day late.
IrregularIndex ==
    [kind |-> "ts",
     times |-> [k \in 1..SeriesLen |->
                   IF k = SeriesLen THEN k * Day ELSE (k - 1) * Day]]

\* A RangeIndex 0..n-1.
IntIndex == [kind |-> "int", times |-> [k \in 1..SeriesLen |-> k - 1]]

Indexes ==
    {RegularIndex(step, SeriesLen) : step \in Intervals}
        \cup {RegularIndex(Day, 2), IrregularIndex, IntIndex}

\* pd.date_range(start=start, periods=periods, freq=step)
DateRange(start, periods, step) ==
    [k \in 1..periods |-> start + (k - 1) * step]

\* range(len(df), len(df) + forecast_periods)
IntegerDates(index, forecast_periods) ==
    [k \in 1..forecast_periods |-> Len(index.times) + k - 1]

\* pd.infer_freq(df.index): the common step of a regular index, None (0)
\* otherwise; it raises on fewer than three timestamps.
InferFreqRaises(times) == Len(times) < 3
InferFreq(times) ==
    IF \A k \in 2..Len(times) :
           times[k] - times[k - 1] = times[2] - times[1]
      THEN times[2] - times[1]
      ELSE 0

\* The half-width of the engine's interval at a confidence level and a
\* step: it grows with the level and with the step.
HalfWidth(level, k) == (level - 50) * k

\* forecast_result.predicted_mean of get_forecast(steps=steps)
PredictedMean(engine, steps) == [k \in 1..steps |-> engine.path[k]]

\* conf_int at a confidence level (alpha = 1 - level/100): one
\* <<lower, upper>> pair per step.
ConfInt(mean, level) ==
    [k \in DOMAIN mean |->
        <<mean[k] - HalfWidth(level, k), mean[k] + HalfWidth(level, k)>>]

\* The level of `forecast_result.conf_int()`: called without alpha, it
\* answers at statsmodels' default alpha = 0.05.
DefaultConfIntLevel == 95
RequestedConfIntLevel(confidence_level) == DefaultConfIntLevel

\* One row of `pd.DataFrame({'forecast': forecast_mean.values,
\* 'lower_bound': forecast_ci.iloc[:, 0].values,
\* 'upper_bound': forecast_ci.iloc[:, 1].values}, index=forecast_dates)`
ForecastRowSwapped(date, mean, ci) ==
    [date |-> date, forecast |-> mean,
     lower_bound |-> ci[2], upper_bound |-> ci[1]]
ForecastRow(date, mean, ci) ==
    [date |-> date, forecast |-> mean,
     lower_bound |-> ci[1], upper_bound |-> ci[2]]

\* The DataFrame constructor raises when the index and the columns differ
\* in length.
DataFrameRaises(dates, mean) == Len(dates) # Len(mean)
ForecastDf(kind, dates, mean, ci) ==
    [kind |-> kind,
     rows |-> [k \in DOMAIN mean |-> ForecastRow(dates[k], mean[k], ci[k])]]

MeanValues == {0, 10}
ConfidenceLevels == {80, 95}

\* The values of the observed series (`df.iloc[:, 0]`) and of the engine's
\* in-sample predictions (`fitted_model.fittedvalues`, one per observation).
ActualValues == {0, 2}
FittedValues == {0, 1}

\* What the engine can answer to one fit_forecast call of horizon h on a
\* series of n observations.
Engines(h, n) ==
    LET paths == [1..h -> MeanValues]
        fits == [1..n -> FittedValues]
        flat == [k \in 1..h |-> 0]
        none == [k \in 1..n |-> 0]
    IN  {[fit_raises |-> TRUE, forecast_raises |-> FALSE, path |-> flat,
          fittedvalues |-> none, aic |-> Fin(1), bic |-> Fin(2)],
         [fit_raises |-> FALSE, forecast_raises |-> TRUE, path |-> flat,
          fittedvalues |-> none, aic |-> Fin(1), bic |-> Fin(2)]}
        \cup {[fit_raises |-> FALSE, forecast_raises |-> FALSE, path |-> q,
               fittedvalues |-> f, aic |-> Fin(1), bic |-> Fin(2)] :
                  q \in paths, f \in fits}

\* The orders the calls are made with: every differencing depth up to 2,
\* with and without a seasonal difference.
ArimaOrders == {<<1, d, 1>> : d \in 0..2}
SarimaSeasonalOrders == {<<1, D, 1, 12>> : D \in 0..1}

FitForecastArgs(family, orders, seasonal_orders) ==
    UNION {[family : {family}, order : orders,
            seasonal_order : seasonal_orders, forecast_periods : {h},
            confidence_level : ConfidenceLevels, index : {index},
            values : [1..Len(index.times) -> ActualValues],
            engine : Engines(h, Len(index.times))] :
               h \in 1..MaxH, index \in Indexes}

(***************************************************************************)
(* The in-sample metrics.  A finite float is kept as an exact ratio.       *)
(***************************************************************************)
Ratio(num, den) == [kind |-> "fin", num |-> num, den |-> den]
InfRatio == [kind |-> "inf", num |-> 0, den |-> 1]
NaNRatio == [kind |-> "nan", num |-> 0, den |-> 1]

Abs(x) == IF x < 0 THEN 0 - x ELSE x

\* The sum of the entries of f at the positions in S, by halves.
SumOver(f, S) ==
    LET RECURSIVE Sum(_, _)
        Sum(lo, hi) ==
            IF lo > hi THEN 0
            ELSE IF lo = hi THEN (IF lo \in S THEN f[lo] ELSE 0)
            ELSE Sum(lo, (lo + hi) \div 2) + Sum((lo + hi) \div 2 + 1, hi)
    IN  Sum(1, Len(f))

\* sklearn's mean_squared_error / mean_absolute_error raise ValueError on
\* arrays of different lengths and on empty arrays.
MetricRaises(actual, fitted) ==
    Len(actual) # Len(fitted) \/ Len(actual) = 0
MeanSquaredError(actual, fitted) ==
    Ratio(SumOver([k \in DOMAIN actual |->
                      (actual[k] - fitted[k]) * (actual[k] - fitted[k])],
                  DOMAIN actual), Len(actual))
MeanAbsoluteError(actual, fitted) ==
    Ratio(SumOver([k \in DOMAIN actual |-> Abs(actual[k] - fitted[k])],
                  DOMAIN actual), Len(actual))
\* np.sqrt(mse)
Sqrt(x) == [sqrt |-> x]

\* `np.abs((actual - fitted) / actual)`, element by element: the division
\* by a zero actual does not raise, it answers inf, or NaN for 0 / 0.
AbsPctErr(actual, fitted) ==
    [k \in DOMAIN actual |->
        IF actual[k] # 0
          THEN Ratio(Abs(actual[k] - fitted[k]), Abs(actual[k]))
        ELSE IF fitted[k] # 0 THEN InfRatio
        ELSE NaNRatio]

\* The sum of finite ratios, over the product of their denominators.
SumRatios(terms, S) ==
    LET Plus(a, b) == Ratio(a.num * b.den + b.num * a.den, a.den * b.den)
        RECURSIVE Sum(_, _)
        Sum(lo, hi) ==
            IF lo > hi THEN Ratio(0, 1)
            ELSE IF lo = hi THEN (IF lo \in S THEN terms[lo] ELSE Ratio(0, 1))
            ELSE Plus(Sum(lo, (lo + hi) \div 2),
                      Sum((lo + hi) \div 2 + 1, hi))
    IN  Sum(1, Len(terms))

MeanOf(terms, S) ==
    LET total == SumRatios(terms, S)
    IN  Ratio(total.num, total.den * Cardinality(S))

\* np.mean of a pandas Series is Series.mean(): NaN entries are skipped.
SeriesMean(terms) ==
    LET kept == {k \in DOMAIN terms : terms[k].kind # "nan"}
    IN  IF kept = {} THEN NaNRatio
        ELSE IF \E k \in kept : terms[k].kind = "inf" THEN InfRatio
        ELSE MeanOf(terms, kept)

\* np.mean of an ndarray: any NaN entry makes the mean NaN.
ArrayMean(terms) ==
    IF DOMAIN terms = {} \/ \E k \in DOMAIN terms : terms[k].kind = "nan"
      THEN NaNRatio
    ELSE IF \E k \in DOMAIN terms : terms[k].kind = "inf" THEN InfRatio
    ELSE MeanOf(terms, DOMAIN terms)

\* `* 100`
Times100(x) == IF x.kind = "fin" THEN Ratio(100 * x.num, x.den) ELSE x

\* `[1:]` and `.iloc[1:]`
DropFirst(seq) == SubSeq(seq, 2, Len(seq))

\* `fitted_model.resid`: the observations less the in-sample predictions.
Resid(series, fitted_values) ==
    [k \in DOMAIN series |-> series[k] - fitted_values[k]]

\* The metrics of the ARIMA and SARIMA fit_forecast, over
\* `series.iloc[1:]` and `fitted_values.iloc[1:]`.
StatsMetrics(series, fitted_values) ==
    LET actual == DropFirst(series)
        fitted == DropFirst(fitted_values)
        mse == MeanSquaredError(actual, fitted)
    IN  [mse |-> mse, rmse |-> Sqrt(mse),
         mae |-> MeanAbsoluteError(actual, fitted),
         mape |-> Times100(SeriesMean(AbsPctErr(actual, fitted)))]

\* The metrics of the Prophet fit_forecast, over every observation, as
\* ndarrays.
ProphetMetrics(actual_values, fitted_values) ==
    LET mse == MeanSquaredError(actual_values, fitted_values)
    IN  [mse |-> mse, rmse |-> Sqrt(mse),
         mae |-> MeanAbsoluteError(actual_values, fitted_values),
         mape |-> Times100(ArrayMean(AbsPctErr(actual_values,
                                               fitted_values)))]

\* The outcome of a call that raised inside the `try`: `return None`.
FailedPartial(calls) ==
    [ret |-> [ok |-> TRUE, order |-> None, seasonal_order |-> None],
     log |-> calls]
Failed(calls) == [ret |-> NoResults, log |-> calls]

(***************************************************************************)
(* ARIMAForecaster.fit_forecast                                            *)
(***************************************************************************)
\* `forecast_dates`: from the day after the last date, one per day, or the
\* integers after the last position.
ArimaForecastDates(index, forecast_periods) ==
    IF index.kind = "ts"
      THEN DateRange(Last(index.times) + Day, forecast_periods, Day)
      ELSE IntegerDates(index, forecast_periods)

ArimaFitForecastOutcome(a) ==
    LET fit == [op |-> "fit", order |-> a.order,
                seasonal_order |-> a.seasonal_order]
        fc == [op |-> "get_forecast", steps |-> a.forecast_periods]
        level == RequestedConfIntLevel(a.confidence_level)
        ci == [op |-> "conf_int", level |-> level]
        forecast_mean == PredictedMean(a.engine, a.forecast_periods)
        forecast_ci == ConfInt(forecast_mean, level)
        forecast_dates == ArimaForecastDates(a.index, a.forecast_periods)
        fitted_values == a.engine.fittedvalues
        metrics == StatsMetrics(a.values, fitted_values)
    IN  IF a.engine.fit_raises THEN Failed(<<fit>>)
        ELSE IF a.engine.forecast_raises THEN Failed(<<fit, fc>>)
        ELSE IF MetricRaises(DropFirst(a.values), DropFirst(fitted_values))
          THEN Failed(<<fit, fc, ci>>)
        ELSE IF DataFrameRaises(forecast_dates, forecast_mean)
          THEN Failed(<<fit, fc, ci>>)
        ELSE [ret |-> [ok |-> TRUE, order |-> a.order,
                       seasonal_order |-> a.seasonal_order,
                       forecast |-> ForecastDf(a.index.kind, forecast_dates,
                                               forecast_mean, forecast_ci),
                       fitted_values |-> fitted_values,
                       residuals |-> Resid(a.values, fitted_values),
                       aic |-> a.engine.aic, bic |-> a.engine.bic,
                       mse |-> metrics.mse, rmse |-> metrics.rmse,
                       mae |-> metrics.mae, mape |-> metrics.mape],
              log |-> <<fit, fc, ci>>]

ArimaFitForecast ==
    /\ pc = "idle"
    /\ args.family = "arima"
    /\ \E a \in FitForecastArgs("arima", ArimaOrders, {None}) :
        LET out == ArimaFitForecastOutcome(a)
        IN  /\ args' = a
            /\ log' = out.log
            /\ ret' = out.ret
            /\ results' = IF out.ret.ok THEN out.ret ELSE results
    /\ pc' = "done"
    /\ ncalls' = ncalls + 1
    /\ UNCHANGED <<d_value, current_series, threads, forecasters, stream>>
    /\ UNCHANGED <<cands, i, best_aic, best_params, best_order,
                   best_seasonal_order>>

(***************************************************************************)
(* SARIMAForecaster.fit_forecast                                           *)
(***************************************************************************)
\* `freq = pd.infer_freq(df.index) or 'D'`
SarimaFreqHourly(index) ==
    IF InferFreq(index.times) # 0 THEN InferFreq(index.times) ELSE 1
SarimaFreq(index) ==
    IF InferFreq(index.times) # 0 THEN InferFreq(index.times) ELSE Day

\* `forecast_dates`: forecast_periods + 1 dates from the last date at the
\* inferred frequency, without the first, or the integers after the last
\* position.
SarimaForecastDates(index, forecast_periods) ==
    IF index.kind = "ts"
      THEN DropFirst(DateRange(Last(index.times), forecast_periods + 1,
                               SarimaFreq(index)))
      ELSE IntegerDates(index, forecast_periods)

SarimaFitForecastOutcome(a) ==
    LET fit == [op |-> "fit", order |-> a.order,
                seasonal_order |-> a.seasonal_order]
        fc == [op |-> "get_forecast", steps |-> a.forecast_periods]
        level == RequestedConfIntLevel(a.confidence_level)
        ci == [op |-> "conf_int", level |-> level]
        forecast_mean == PredictedMean(a.engine, a.forecast_periods)
        forecast_ci == ConfInt(forecast_mean, level)
        forecast_dates == SarimaForecastDates(a.index, a.forecast_periods)
        fitted_values == a.engine.fittedvalues
        metrics == StatsMetrics(a.values, fitted_values)
    IN  IF a.engine.fit_raises THEN Failed(<<fit>>)
        ELSE IF a.engine.forecast_raises THEN Failed(<<fit, fc>>)
        ELSE IF MetricRaises(DropFirst(a.values), DropFirst(fitted_values))
          THEN Failed(<<fit, fc, ci>>)
        ELSE IF a.index.kind = "ts" /\ InferFreqRaises(a.index.times)
          THEN Failed(<<fit, fc, ci>>)
        ELSE IF DataFrameRaises(forecast_dates, forecast_mean)
          THEN Failed(<<fit, fc, ci>>)
        ELSE [ret |-> [ok |-> TRUE, order |-> a.order,
                       seasonal_order |-> a.seasonal_order,
                       forecast |-> ForecastDf(a.index.kind, forecast_dates,
                                               forecast_mean, forecast_ci),
                       fitted_values |-> fitted_values,
                       residuals |-> Resid(a.values, fitted_values),
                       aic |-> a.engine.aic, bic |-> a.engine.bic,
                       mse |-> metrics.mse, rmse |-> metrics.rmse,
                       mae |-> metrics.mae, mape |-> metrics.mape],
              log |-> <<fit, fc, ci>>]

SarimaFitForecast ==
    /\ pc = "idle"
    /\ args.family = "sarima"
    /\ \E a \in FitForecastArgs("sarima", {<<1, 1, 1>>}, SarimaSeasonalOrders) :
        LET out == SarimaFitForecastOutcome(a)
        IN  /\ args' = a
            /\ log' = out.log
            /\ ret' = out.ret
            /\ results' = IF out.ret.ok THEN out.ret ELSE results
    /\ pc' = "done"
    /\ ncalls' = ncalls + 1
    /\ UNCHANGED <<d_value, current_series, threads, forecasters, stream>>
    /\ UNCHANGED <<cands, i, best_aic, best_params, best_order,
                   best_seasonal_order>>

(***************************************************************************)
(* ProphetForecaster.fit_forecast                                          *)
(***************************************************************************)
\* `time_diffs.mode().iloc[0]`: the most frequent difference of consecutive
\* timestamps, the smallest of them when several are equally frequent.
MostCommonDiff(times) ==
    LET diffs == [k \in 1..(Len(times) - 1) |-> times[k + 1] - times[k]]
        count(d) == Cardinality({k \in DOMAIN diffs : diffs[k] = d})
        modes == {diffs[k] : k \in DOMAIN diffs} \ 
                     {diffs[k] : k \in {j \in DOMAIN diffs :
                          \E m \in DOMAIN diffs :
                              count(diffs[m]) > count(diffs[j])}}
    IN  CHOOSE d \in modes : \A e \in modes : d <= e

\* _detect_frequency, as the step of the frequency it names: 'D', 'H', 'W',
\* 'M', 'Y', else 'D'.  The calendar anchoring of 'W', 'M' and 'Y' is left
\* out; the timestamps pd.to_datetime makes of a plain integer index are
\* nanoseconds apart, which is none of the listed differences.
DetectFrequency(index) ==
    IF index.kind = "int" THEN Day
    ELSE LET d == MostCommonDiff(index.times)
         IN  IF d = Day THEN Day
             ELSE IF d = 1 THEN 1
             ELSE IF d = 7 * Day THEN 7 * Day
             ELSE IF d = 30 * Day THEN 30 * Day
             ELSE IF d = 365 * Day THEN 365 * Day
             ELSE Day

\* make_future_dataframe(periods, freq): the history followed by `periods`
\* dates after the last one.
MakeFutureDataframe(index, periods, freq) ==
    index.times \o DateRange(Last(index.times) + freq, periods, freq)

\* predict(future): one row per date of `future`; the in-sample rows are
\* the engine's fitted values, the later ones follow its mean path.
Predict(engine, future, history, level) ==
    [k \in DOMAIN future |->
        LET yhat == IF k <= history THEN engine.fittedvalues[k]
                    ELSE engine.path[k - history]
            step == IF k <= history THEN 1 ELSE k - history
        IN  [ds |-> future[k], yhat |-> yhat,
             yhat_lower |-> yhat - HalfWidth(level, step),
             yhat_upper |-> yhat + HalfWidth(level, step)]]

\* `forecast_df.tail(forecast_periods)`
LastRowsOneMore(seq, n) ==
    SubSeq(seq, IF n + 1 >= Len(seq) THEN 1 ELSE Len(seq) - n, Len(seq))
LastRows(seq, n) ==
    SubSeq(seq, IF n >= Len(seq) THEN 1 ELSE Len(seq) - n + 1, Len(seq))

ProphetFitForecastOutcome(a) ==
    LET init == [op |-> "Prophet", level |-> a.confidence_level]
        fit == [op |-> "fit", order |-> None, seasonal_order |-> None]
        freq == DetectFrequency(a.index)
        future == MakeFutureDataframe(a.index, a.forecast_periods, freq)
        pr == [op |-> "predict", steps |-> Len(future)]
        forecast == Predict(a.engine, future, Len(a.index.times),
                            a.confidence_level)
        forecast_only == LastRows(forecast, a.forecast_periods)
        fitted_values == [k \in 1..(Len(forecast) - a.forecast_periods) |->
                             forecast[k].yhat]
        actual_values == a.values
        metrics == ProphetMetrics(actual_values, fitted_values)
    IN  IF a.engine.fit_raises THEN Failed(<<init, fit>>)
        ELSE IF a.engine.forecast_raises THEN Failed(<<init, fit, pr>>)
        ELSE IF MetricRaises(actual_values, fitted_values)
          THEN Failed(<<init, fit, pr>>)
        ELSE [ret |-> [ok |-> TRUE, order |-> None, seasonal_order |-> None,
                       forecast |-> [kind |-> "ts", rows |-> forecast_only],
                       fitted_values |-> fitted_values,
                       residuals |-> Resid(actual_values, fitted_values),
                       mse |-> metrics.mse, rmse |-> metrics.rmse,
                       mae |-> metrics.mae, mape |-> metrics.mape],
              log |-> <<init, fit, pr>>]

ProphetFitForecast ==
    /\ pc = "idle"
    /\ args.family = "prophet"
    /\ \E a \in FitForecastArgs("prophet", {None}, {None}) :
        LET out == ProphetFitForecastOutcome(a)
        IN  /\ args' = a
            /\ log' = out.log
            /\ ret' = out.ret
            /\ results' = IF out.ret.ok THEN out.ret ELSE results
    /\ pc' = "done"
    /\ ncalls' = ncalls + 1
    /\ UNCHANGED <<d_value, current_series, threads, forecasters, stream>>
    /\ UNCHANGED <<cands, i, best_aic, best_params, best_order,
                   best_seasonal_order>>

(***************************************************************************)
(* A forecaster of one family and the fit_forecast calls made on it.       *)
(***************************************************************************)
InitForecast ==
    /\ args \in [family : {"arima", "sarima", "prophet"}]
    /\ pc = "idle"
    /\ cands = <<>>
    /\ i = 1
    /\ best_aic = PosInf
    /\ best_params = None
    /\ best_order = None
    /\ best_seasonal_order = None
    /\ log = <<>>
    /\ ret = NoResults
    /\ results = NoResults
    /\ ncalls = 0
    /\ d_value = 0
    /\ current_series = <<>>
    /\ threads = <<>>
    /\ forecasters = <<>>
    /\ stream = <<>>

NextForecast ==
    \/ ArimaFitForecast
    \/ SarimaFitForecast
    \/ ProphetFitForecast

SpecForecast == InitForecast /\ [][NextForecast]_vars

(***************************************************************************)
(* ARIMAForecaster.make_stationary                                         *)
(*                                                                         *)
(* The Augmented Dickey-Fuller test is external: its p-value, in percent,  *)
(* is drawn when the code asks for it, and it raises on an empty series.   *)
(***************************************************************************)
MaxDiff == 3       \* largest max_diff of a make_stationary call

searchVars == <<cands, i, best_aic, best_params, best_order,
                best_seasonal_order>>

\* `is_stationary = p_value < 0.05`, in percent
SignificanceLevel == 5
IsStationary(p_value) == p_value < SignificanceLevel

PValues == {1, 5, 10}

\* What adfuller(series.dropna()) can answer: a p-value, or it raises.
AdfullerOutcomes(series) ==
    LET raises == [raises |-> TRUE, p_value |-> 0]
    IN  IF Len(series) = 0 THEN {raises}
        ELSE {raises} \cup {[raises |-> FALSE, p_value |-> p] : p \in PValues}

\* `current_series.diff().dropna()`
Diff(series) ==
    [k \in 1..(Len(series) - 1) |-> series[k + 1] - series[k]]

\* `while d < max_diff`
LoopContinuesInclusive(d, max_diff) == d <= max_diff
LoopContinues(d, max_diff) == d < max_diff

SeriesValues == {0, 1, 3}

StationaryArgs ==
    [series : [1..SeriesLen -> SeriesValues], max_diff : 0..MaxDiff]

\* One pass of the loop: the test, then `break` or one more difference.
StationaryTest ==
    /\ pc = "loop"
    /\ LoopContinues(d_value, args.max_diff)
    /\ \E out \in AdfullerOutcomes(current_series) :
        IF out.raises
          THEN /\ pc' = "raised"
               /\ log' = Append(log, [op |-> "adfuller", d |-> d_value,
                                      raised |-> TRUE,
                                      is_stationary |-> FALSE])
               /\ UNCHANGED <<d_value, current_series>>
          ELSE /\ log' = Append(log, [op |-> "adfuller", d |-> d_value,
                                      raised |-> FALSE,
                                      is_stationary |-> IsStationary(out.p_value)])
               /\ IF IsStationary(out.p_value)
                    THEN /\ pc' = "break"
                         /\ UNCHANGED <<d_value, current_series>>
                    ELSE /\ pc' = "loop"
                         /\ current_series' = Diff(current_series)
                         /\ d_value' = d_value + 1
    /\ UNCHANGED <<args, ret, results, ncalls, threads, forecasters, stream>>
    /\ UNCHANGED searchVars

\* `return current_series, d`
StationaryReturn ==
    /\ \/ pc = "break"
       \/ pc = "loop" /\ ~LoopContinues(d_value, args.max_diff)
    /\ ret' = <<current_series, d_value>>
    /\ pc' = "done"
    /\ UNCHANGED <<args, log, results, ncalls, d_value, current_series,
                   threads, forecasters, stream>>
    /\ UNCHANGED searchVars

\* `d = 0; current_series = series.copy()`
InitStationary ==
    /\ args \in StationaryArgs
    /\ pc = "loop"
    /\ d_value = 0
    /\ current_series = args.series
    /\ cands = <<>>
    /\ i = 1
    /\ best_aic = PosInf
    /\ best_params = None
    /\ best_order = None
    /\ best_seasonal_order = None
    /\ log = <<>>
    /\ ret = None
    /\ results = NoResults
    /\ ncalls = 0
    /\ threads = <<>>
    /\ forecasters = <<>>
    /\ stream = <<>>

NextStationary ==
    \/ StationaryTest
    \/ StationaryReturn

SpecStationary == InitStationary /\ [][NextStationary]_vars

(***************************************************************************)
(* get_residual_analysis of the ARIMA and SARIMA forecasters.              *)
(*                                                                         *)
(* acorr_ljungbox is external: it raises, or answers one statistic and one *)
(* p-value per lag 1..lags.  P-values are in percent.                      *)
(***************************************************************************)
\* `lags=10`
Lags == 10

\* The sequences of length n that step from lo to hi after position c.
StepSeqs(n, lo, hi) ==
    {[k \in 1..n |-> IF k <= c THEN lo ELSE hi] : c \in 0..n}

\* What acorr_ljungbox(residuals, lags=10, return_df=False) can answer.
\* The statistic accumulates over the lags, so it does not decrease.
LjungBoxOutcomes ==
    {[raises |-> TRUE, lb_stat |-> <<>>, lb_pvalue |-> <<>>],
     [raises |-> FALSE, lb_stat |-> <<>>, lb_pvalue |-> <<>>]}
        \cup [raises : {FALSE}, lb_stat : StepSeqs(Lags, 1, 2),
              lb_pvalue : StepSeqs(Lags, 50, 1)]

ResidualValues == {-1, 0, 1}

\* self.results when get_residual_analysis is called: None, or the
\* dictionary of a fit with its residuals.
ResidualResults ==
    {NoResults}
        \cup {[ok |-> TRUE, residuals |-> r] :
                 r \in [1..SeriesLen -> ResidualValues]}

\* The `analysis` dictionary.
Analysis(residuals, ljung_box_stat, ljung_box_pvalue) ==
    [ok |-> TRUE,
     residuals_mean |-> Ratio(SumOver(residuals, DOMAIN residuals),
                              Len(residuals)),
     residuals_std |-> [std |-> residuals],
     ljung_box_stat |-> ljung_box_stat,
     ljung_box_pvalue |-> ljung_box_pvalue,
     residuals_autocorr |-> [autocorr |-> residuals, lag |-> 1]]

\* `ljung_box_stat = 0; ljung_box_pvalue = 1`
FallbackStat == 0
FallbackPValue == 100

\* ARIMAForecaster.get_residual_analysis: the Ljung-Box call and the
\* `[0]` subscripts are outside any `try`.
ArimaResidualOutcome(residuals, lb) ==
    IF lb.raises \/ Len(lb.lb_stat) = 0 \/ Len(lb.lb_pvalue) = 0
      THEN [raised |-> TRUE, ret |-> NoResults]
      ELSE [raised |-> FALSE,
            ret |-> Analysis(residuals, lb.lb_stat[1], lb.lb_pvalue[1])]

\* SARIMAForecaster.get_residual_analysis: a bare `except` around the
\* Ljung-Box call.
SarimaResidualOutcome(residuals, lb) ==
    [raised |-> FALSE,
     ret |-> IF lb.raises
               THEN Analysis(residuals, FallbackStat, FallbackPValue)
               ELSE Analysis(residuals,
                             IF Len(lb.lb_stat) > 0 THEN lb.lb_stat[1]
                             ELSE FallbackStat,
                             IF Len(lb.lb_pvalue) > 0 THEN lb.lb_pvalue[1]
                             ELSE FallbackPValue)]

\* The fit_forecast calls made on the forecaster before its residuals are
\* analysed: the engine fits, or its fit or its forecast raises.
RefitArgs(family) ==
    [family : {family}, order : {<<1, 1, 1>>},
     seasonal_order : {IF family = "arima" THEN None ELSE <<1, 1, 1, 12>>},
     forecast_periods : {1}, confidence_level : {95},
     index : {RegularIndex(Day, SeriesLen)},
     values : {[k \in 1..SeriesLen |-> 2]},
     engine : {e \in Engines(1, SeriesLen) :
                  /\ e.path = <<0>>
                  /\ e.fittedvalues \in {[k \in 1..SeriesLen |-> 0],
                                         [k \in 1..SeriesLen |-> 1]}}]

\* fit_forecast on the forecaster: self.results is assigned only at the end
\* of a call that succeeds, and `except: return None` leaves it alone.
RefitForecast ==
    /\ pc = "idle"
    /\ ncalls < MaxCalls
    /\ \E a \in RefitArgs(args.family) :
        LET out == IF args.family = "arima"
                     THEN ArimaFitForecastOutcome(a)
                     ELSE SarimaFitForecastOutcome(a)
        IN  /\ ret' = out.ret
            /\ results' = IF out.ret.ok THEN out.ret ELSE results
            /\ log' = Append(log, [op |-> "fit_forecast", ok |-> out.ret.ok])
    /\ ncalls' = ncalls + 1
    /\ UNCHANGED <<pc, args, d_value, current_series, threads, forecasters, stream>>
    /\ UNCHANGED searchVars

\* `if self.results is None: return None`
ResidualAnalysisNone ==
    /\ pc = "idle"
    /\ ~results.ok
    /\ ret' = NoResults
    /\ pc' = "done"
    /\ UNCHANGED <<args, log, results, ncalls, d_value, current_series,
                   threads, forecasters, stream>>
    /\ UNCHANGED searchVars

ArimaResidualAnalysis ==
    /\ pc = "idle"
    /\ args.family = "arima"
    /\ results.ok
    /\ \E lb \in LjungBoxOutcomes :
        LET out == ArimaResidualOutcome(results.residuals, lb)
        IN  /\ log' = Append(log, lb)
            /\ ret' = out.ret
            /\ pc' = IF out.raised THEN "raised" ELSE "done"
    /\ UNCHANGED <<args, results, ncalls, d_value, current_series,
                   threads, forecasters, stream>>
    /\ UNCHANGED searchVars

SarimaResidualAnalysis ==
    /\ pc = "idle"
    /\ args.family = "sarima"
    /\ results.ok
    /\ \E lb \in LjungBoxOutcomes :
        LET out == SarimaResidualOutcome(results.residuals, lb)
        IN  /\ log' = Append(log, lb)
            /\ ret' = out.ret
            /\ pc' = IF out.raised THEN "raised" ELSE "done"
    /\ UNCHANGED <<args, results, ncalls, d_value, current_series,
                   threads, forecasters, stream>>
    /\ UNCHANGED searchVars

InitResidual ==
    /\ args \in [family : {"arima", "sarima"}]
    /\ results \in ResidualResults
    /\ pc = "idle"
    /\ cands = <<>>
    /\ i = 1
    /\ best_aic = PosInf
    /\ best_params = None
    /\ best_order = None
    /\ best_seasonal_order = None
    /\ log = <<>>
    /\ ret = NoResults
    /\ ncalls = 0
    /\ d_value = 0
    /\ current_series = <<>>
    /\ threads = <<>>
    /\ forecasters = <<>>
    /\ stream = <<>>

NextResidual ==
    \/ RefitForecast
    \/ ResidualAnalysisNone
    \/ ArimaResidualAnalysis
    \/ SarimaResidualAnalysis

SpecResidual == InitResidual /\ [][NextResidual]_vars

(***************************************************************************)
(* auto_fit_forecast of the ARIMA and SARIMA forecasters, as one step.     *)
(*                                                                         *)
(* The engine is deterministic: `fits` gives, for each order, what fitting *)
(* that order to the series answers, in the search and in the final fit    *)
(* alike.                                                                  *)
(***************************************************************************)
\* One pass of the `for` loop of find_optimal_parameters: `best` is
\* best_aic with the best candidate, <<>> for None or <<candidate>>.
SearchPass(candidate, best, fits) ==
    LET out == fits[candidate]
    IN  IF out.raised THEN best
        ELSE IF IsBetterAic(out.aic, best.aic)
          THEN [aic |-> out.aic, params |-> <<candidate>>]
        ELSE best

\* The passes over candidates[lo..hi] from `start`, in order.  The range is
\* split in two: a pass of the second half replaces what the first half
\* left exactly when the best of the second half is strictly lower.
RECURSIVE SearchRange(_, _, _, _, _)
SearchRange(candidates, lo, hi, start, fits) ==
    IF lo > hi THEN start
    ELSE IF lo = hi THEN SearchPass(candidates[lo], start, fits)
    ELSE LET mid == (lo + hi) \div 2
             first == SearchRange(candidates, lo, mid, start, fits)
             second == SearchRange(candidates, mid + 1, hi, start, fits)
         IN  IF IsBetterAic(second.aic, first.aic) THEN second ELSE first

SearchFrom(candidates, best, fits) ==
    SearchRange(candidates, 1, Len(candidates), best, fits)

\* `best_aic = float('inf')`: the search starts from +inf, whatever an
\* earlier search left.
InitialBestAicKept(previous) == previous
InitialBestAic(previous) == PosInf

\* ARIMAForecaster.find_optimal_parameters(series, max_p, max_q), with
\* max_d at its default.
DefaultMaxD == 3
ArimaCandidates(max_p, max_q) == Product3(max_p, DefaultMaxD, max_q)
ArimaFindOptimalParameters(max_p, max_q, fits, previous) ==
    LET best == SearchFrom(ArimaCandidates(max_p, max_q),
                           [aic |-> InitialBestAic(previous),
                            params |-> <<>>], fits)
    IN  [order |-> IF best.params # <<>> THEN best.params[1]
                   ELSE FallbackOrder,
         seasonal_order |-> None,
         best_aic |-> best.aic]

\* detect_seasonality(series), max_period at its default.
DetectSeasonality(n, acf) ==
    LET hits == {k \in DOMAIN potential_periods :
                    /\ PeriodFits(potential_periods[k], n)
                    /\ IsSignificant(acf[potential_periods[k]])}
    IN  IF hits = {} THEN DefaultPeriod
        ELSE potential_periods[CHOOSE k \in hits : \A j \in hits : k <= j]

\* SARIMAForecaster.find_optimal_parameters(series, seasonal_period, max_p,
\* max_q, max_P, max_Q), with max_d and max_D at their defaults.
SarimaDefaultMaxD == 2
SarimaDefaultMaxSeasonalD == 1
SarimaCandidates(seasonal_period, max_p, max_q, max_P, max_Q) ==
    ParamCombinations([max_p |-> max_p, max_d |-> SarimaDefaultMaxD,
                       max_q |-> max_q, max_P |-> max_P,
                       max_D |-> SarimaDefaultMaxSeasonalD, max_Q |-> max_Q,
                       seasonal_period |-> seasonal_period])
SarimaFindOptimalParameters(seasonal_period, max_p, max_q, max_P, max_Q, fits, previous) ==
    LET best == SearchFrom(SarimaCandidates(seasonal_period, max_p, max_q,
                                            max_P, max_Q),
                           [aic |-> InitialBestAic(previous),
                            params |-> <<>>], fits)
    IN  [order |-> IF best.params # <<>> THEN best.params[1].order
                   ELSE FallbackOrder,
         seasonal_order |-> IF best.params # <<>>
                              THEN best.params[1].seasonal_order
                              ELSE FallbackSeasonalOrder(seasonal_period),
         best_aic |-> best.aic]

\* The arguments of the fit_forecast call that ends auto_fit_forecast: the
\* final fit answers what the engine answers for the chosen order.
FinalFitArgsFallback(a, chosen, key) ==
    [family |-> a.family, order |-> FallbackOrder,
     seasonal_order |-> chosen.seasonal_order,
     forecast_periods |-> a.forecast_periods,
     confidence_level |-> a.confidence_level,
     index |-> a.index, values |-> a.values,
     engine |-> [fit_raises |-> a.engine.fits[key].raised,
                 forecast_raises |-> a.engine.forecast_raises,
                 path |-> a.engine.path,
                 fittedvalues |-> a.engine.fittedvalues,
                 aic |-> a.engine.fits[key].aic, bic |-> a.engine.bic]]
FinalFitArgs(a, chosen, key) ==
    [family |-> a.family, order |-> chosen.order,
     seasonal_order |-> chosen.seasonal_order,
     forecast_periods |-> a.forecast_periods,
     confidence_level |-> a.confidence_level,
     index |-> a.index, values |-> a.values,
     engine |-> [fit_raises |-> a.engine.fits[key].raised,
                 forecast_raises |-> a.engine.forecast_raises,
                 path |-> a.engine.path,
                 fittedvalues |-> a.engine.fittedvalues,
                 aic |-> a.engine.fits[key].aic, bic |-> a.engine.bic]]

ArimaAutoFitForecastOutcome(a, previous) ==
    LET chosen == ArimaFindOptimalParameters(a.max_p, a.max_q, a.engine.fits,
                                             previous)
        out == ArimaFitForecastOutcome(FinalFitArgs(a, chosen, chosen.order))
    IN  [ret |-> out.ret, log |-> out.log, best_aic |-> chosen.best_aic,
         search |-> ArimaCandidates(a.max_p, a.max_q),
         chosen |-> <<chosen.order, chosen.seasonal_order>>]

SarimaAutoFitForecastOutcome(a, previous) ==
    LET seasonal_period == DetectSeasonality(Len(a.values), a.engine.acf)
        chosen == SarimaFindOptimalParameters(seasonal_period, a.max_p,
                                              a.max_q, a.max_P, a.max_Q,
                                              a.engine.fits, previous)
        key == [order |-> chosen.order,
                seasonal_order |-> chosen.seasonal_order]
        out == SarimaFitForecastOutcome(FinalFitArgs(a, chosen, key))
    IN  [ret |-> out.ret, log |-> out.log, best_aic |-> chosen.best_aic,
         search |-> SarimaCandidates(seasonal_period, a.max_p, a.max_q,
                                     a.max_P, a.max_Q),
         chosen |-> <<chosen.order, chosen.seasonal_order>>]

\* What the deterministic engine answers for one order: it raises, or it
\* reports one of two finite AICs.
AutoFitOutcomes ==
    {[raised |-> TRUE, aic |-> NaN]} \cup
    {[raised |-> FALSE, aic |-> Fin(v)] : v \in {1, 2}}

\* The series of the auto_fit_forecast calls: without and with a zero.
AutoSeries ==
    {[k \in 1..SeriesLen |-> 2],
     [k \in 1..SeriesLen |-> IF k = SeriesLen THEN 0 ELSE 2]}

NoSeasonality == [p \in Periods |-> Fin(0)]

\* The orders a search can hand to the final fit: its candidates and its
\* fallback.
ArimaKeys(max_p, max_q) ==
    LET c == ArimaCandidates(max_p, max_q)
    IN  {c[k] : k \in DOMAIN c} \cup {FallbackOrder}
SarimaKeys(seasonal_period, max_p, max_q, max_P, max_Q) ==
    LET c == SarimaCandidates(seasonal_period, max_p, max_q, max_P, max_Q)
    IN  {c[k] : k \in DOMAIN c}
            \cup {[order |-> FallbackOrder,
                   seasonal_order |-> FallbackSeasonalOrder(seasonal_period)]}

AutoEngines(keys, h) ==
    [fits : [keys -> AutoFitOutcomes], forecast_raises : {FALSE},
     path : {[k \in 1..h |-> 10]},
     fittedvalues : {[k \in 1..SeriesLen |-> 1]},
     bic : {Fin(2)}, acf : {NoSeasonality}]

\* The calls with the smallest search bounds.
AutoArgs ==
    UNION {[family : {"arima"}, max_p : {0}, max_q : {0}, max_P : {0},
            max_Q : {0}, forecast_periods : {h}, confidence_level : {95},
            index : {RegularIndex(Day, SeriesLen)}, values : AutoSeries,
            engine : AutoEngines(ArimaKeys(0, 0), h)] : h \in 1..MaxH}
        \cup
    UNION {[family : {"sarima"}, max_p : {0}, max_q : {0}, max_P : {0},
            max_Q : {0}, forecast_periods : {h}, confidence_level : {95},
            index : {RegularIndex(Day, SeriesLen)}, values : AutoSeries,
            engine : AutoEngines(
                SarimaKeys(DetectSeasonality(SeriesLen, NoSeasonality),
                           0, 0, 0, 0), h)] : h \in 1..MaxH}

ArimaAutoFitForecast ==
    /\ pc \in {"idle", "done"}
    /\ args.family = "arima"
    /\ ncalls < MaxCalls
    /\ LET out == ArimaAutoFitForecastOutcome(args, best_aic)
       IN  /\ ret' = out.ret
           /\ results' = IF out.ret.ok THEN out.ret ELSE results
           /\ best_aic' = out.best_aic
           /\ log' = Append(log, [op |-> "auto_fit_forecast",
                                  ret |-> out.ret, calls |-> out.log,
                                  search |-> out.search,
                                  chosen |-> out.chosen])
    /\ pc' = "done"
    /\ ncalls' = ncalls + 1
    /\ UNCHANGED <<args, cands, i, best_params, best_order,
                   best_seasonal_order, d_value, current_series, threads,
                   forecasters, stream>>

SarimaAutoFitForecast ==
    /\ pc \in {"idle", "done"}
    /\ args.family = "sarima"
    /\ ncalls < MaxCalls
    /\ LET out == SarimaAutoFitForecastOutcome(args, best_aic)
       IN  /\ ret' = out.ret
           /\ results' = IF out.ret.ok THEN out.ret ELSE results
           /\ best_aic' = out.best_aic
           /\ log' = Append(log, [op |-> "auto_fit_forecast",
                                  ret |-> out.ret, calls |-> out.log,
                                  search |-> out.search,
                                  chosen |-> out.chosen])
    /\ pc' = "done"
    /\ ncalls' = ncalls + 1
    /\ UNCHANGED <<args, cands, i, best_params, best_order,
                   best_seasonal_order, d_value, current_series, threads,
                   forecasters, stream>>

\* A forecaster, and the series and bounds every call on it is made with.
InitAuto ==
    /\ args \in AutoArgs
    /\ pc = "idle"
    /\ cands = <<>>
    /\ i = 1
    /\ best_aic = PosInf
    /\ best_params = None
    /\ best_order = None
    /\ best_seasonal_order = None
    /\ log = <<>>
    /\ ret = NoResults
    /\ results = NoResults
    /\ ncalls = 0
    /\ d_value = 0
    /\ current_series = <<>>
    /\ threads = <<>>
    /\ forecasters = <<>>
    /\ stream = <<>>

NextAuto ==
    \/ ArimaAutoFitForecast
    \/ SarimaAutoFitForecast

SpecAuto == InitAuto /\ [][NextAuto]_vars

(***************************************************************************)
(* app_flask: the /api/forecast endpoint.                                  *)
(*                                                                         *)
(* arima_forecaster and sarima_forecaster are module-level instances that  *)
(* every request uses.  A request is served by one thread; the steps of a  *)
(* thread are the validation, each forecaster call up to the point where   *)
(* fit_forecast has built its dictionary, `self.results = {...}`,          *)
(* `return self.results`, and the response.                                *)
(***************************************************************************)
valid_models == {"arima", "sarima", "prophet", "compare"}

\* `len(df) < 10`
MinPoints == 10
\* `forecast_periods < 1 or forecast_periods > 1000`
MinForecastPeriods == 1
MaxForecastPeriods == 1000
\* `confidence_interval < 50 or confidence_interval > 99`
MinConfidence == 50
MaxConfidence == 99
\* `if fast_mode and len(df) > 500: df = df.tail(500)`
FastModeWindow == 500

\* The deterministic engines of the requests, by the rule that gives their
\* answer for an order: every fit raises, the ARIMA fits raise, or the fits
\* succeed with the lowest AIC at d = 1.
SearchProfiles == {"all_raise", "arima_raises", "prefers_differenced"}

ProfileOutcome(profile, family, order) ==
    IF profile = "all_raise" \/ (profile = "arima_raises" /\ family = "arima")
      THEN [raised |-> TRUE, aic |-> NaN]
      ELSE [raised |-> FALSE, aic |-> Fin(IF order[2] = 1 THEN 1 ELSE 2)]

OrderSpace == (0..5) \X (0..5) \X (0..5)
\* `seasonal_params.get('P', 1), ...`: the seasonal orders of the manual
\* requests are whatever the caller sends.
ManualSeasonalOrders == {<<1, 1, 1, 12>>, <<1, 1, 1, 1>>, <<-1, 1, 1, 12>>}
SeasonalOrderSpace ==
    ((0..5) \X (0..5) \X (0..5) \X Periods) \cup ManualSeasonalOrders

ProfileFits(profile, family) ==
    IF family = "arima"
      THEN [c \in OrderSpace |-> ProfileOutcome(profile, family, c)]
      ELSE [c \in [order : OrderSpace, seasonal_order : SeasonalOrderSpace] |->
               ProfileOutcome(profile, family, c.order)]

ApiEngines == [search : SearchProfiles, forecast_raises : BOOLEAN]

\* The JSON bodies: no body, no data, a malformed `data`, dates that do not
\* parse, or a series of daily observations.
ConstantSeries(n, v) == [k \in 1..n |-> v]
\* A long series whose percentage errors have denominator 1, and whose
\* first observation differs from the others.
LongSeries(n) == [k \in 1..n |-> IF k = 1 THEN -1 ELSE 1]
ApiData ==
    {[kind |-> k, values |-> <<>>] :
        k \in {"no_json", "no_data", "bad_format", "bad_dates"}}
        \cup {[kind |-> "ok", values |-> v] :
                 v \in {ConstantSeries(MinPoints - 1, 2),
                        ConstantSeries(MinPoints, 2),
                        ConstantSeries(MinPoints, 4),
                        LongSeries(FastModeWindow),
                        LongSeries(FastModeWindow + 1)}}

ApiRequests ==
    [data : ApiData,
     model : valid_models \cup {"lstm"},
     forecast_periods : {0, 1, MaxForecastPeriods + 1},
     confidence_interval : {MinConfidence - 1, 95, MaxConfidence + 1},
     auto_params : BOOLEAN, fast_mode : BOOLEAN,
     order : {<<1, 1, 1>>}, seasonal_order : ManualSeasonalOrders,
     engine : ApiEngines]

\* The checks of api_forecast, in order: the message of the first one that
\* fails, "" when the request passes them all.
ApiValidationNoLength(req) ==
    IF req.data.kind = "no_json" THEN "No JSON data provided"
    ELSE IF req.data.kind = "no_data" THEN "Time series data is required"
    ELSE IF req.data.kind = "bad_format"
      THEN "Invalid time series data format"
    ELSE IF \/ req.forecast_periods < MinForecastPeriods
            \/ req.forecast_periods > MaxForecastPeriods
      THEN "Forecast periods must be between 1 and 1000"
    ELSE IF \/ req.confidence_interval < MinConfidence
            \/ req.confidence_interval > MaxConfidence
      THEN "Confidence interval must be between 50 and 99"
    ELSE IF req.model \notin valid_models THEN "Invalid model"
    ELSE IF req.data.kind = "bad_dates" THEN "Data conversion error"
    ELSE IF req.model = "prophet" THEN "Prophet model not available"
    ELSE ""
ApiValidation(req) ==
    IF req.data.kind = "no_json" THEN "No JSON data provided"
    ELSE IF req.data.kind = "no_data" THEN "Time series data is required"
    ELSE IF req.data.kind = "bad_format"
      THEN "Invalid time series data format"
    ELSE IF \/ req.forecast_periods < MinForecastPeriods
            \/ req.forecast_periods > MaxForecastPeriods
      THEN "Forecast periods must be between 1 and 1000"
    ELSE IF \/ req.confidence_interval < MinConfidence
            \/ req.confidence_interval > MaxConfidence
      THEN "Confidence interval must be between 50 and 99"
    ELSE IF req.model \notin valid_models THEN "Invalid model"
    ELSE IF req.data.kind = "bad_dates" THEN "Data conversion error"
    ELSE IF Len(req.data.values) < MinPoints
      THEN "Insufficient data points"
    ELSE IF req.model = "prophet" THEN "Prophet model not available"
    ELSE ""

\* The forecaster calls of a request, in order.
Families(model) ==
    IF model = "compare" THEN <<"arima", "sarima">> ELSE <<model>>

\* The training window: the last 500 points in fast mode.
Window(req, seq) ==
    IF req.fast_mode /\ Len(seq) > FastModeWindow
      THEN LastRows(seq, FastModeWindow)
      ELSE seq

\* The search bounds api_forecast passes to auto_fit_forecast: the reduced
\* ones in the fast mode of a single model, else the defaults.
ApiBounds(req, family) ==
    IF family = "arima"
      THEN IF req.model = "arima" /\ req.fast_mode
             THEN [max_p |-> 3, max_q |-> 3, max_P |-> 0, max_Q |-> 0]
             ELSE [max_p |-> 5, max_q |-> 5, max_P |-> 0, max_Q |-> 0]
      ELSE IF req.model = "sarima" /\ req.fast_mode
             THEN [max_p |-> 2, max_q |-> 2, max_P |-> 1, max_Q |-> 1]
             ELSE [max_p |-> 3, max_q |-> 3, max_P |-> 2, max_Q |-> 2]

\* The arguments of the forecaster call of a request.
ApiCallArgs(req, family) ==
    LET values == Window(req, req.data.values)
        times == Window(req, RegularIndex(Day, Len(req.data.values)).times)
        b == ApiBounds(req, family)
    IN  [family |-> family, max_p |-> b.max_p, max_q |-> b.max_q,
         max_P |-> b.max_P, max_Q |-> b.max_Q,
         forecast_periods |-> req.forecast_periods,
         confidence_level |-> req.confidence_interval,
         index |-> [kind |-> "ts", times |-> times], values |-> values,
         engine |-> [fits |-> ProfileFits(req.engine.search, family),
                     forecast_raises |-> req.engine.forecast_raises,
                     path |-> ConstantSeries(req.forecast_periods, 10),
                     fittedvalues |-> ConstantSeries(Len(values), 1),
                     bic |-> Fin(2), acf |-> NoSeasonality]]

\* What the forecaster call of a request builds: auto_fit_forecast, or
\* fit_forecast with the caller's orders; compare always searches.
ForecasterOutcome(req, family) ==
    LET a == ApiCallArgs(req, family)
        manual == [order |-> req.order,
                   seasonal_order |-> IF family = "arima" THEN None
                                      ELSE req.seasonal_order]
    IN  IF req.auto_params \/ req.model = "compare"
          THEN IF family = "arima"
                 THEN ArimaAutoFitForecastOutcome(a, PosInf)
                 ELSE SarimaAutoFitForecastOutcome(a, PosInf)
          ELSE IF family = "arima"
                 THEN ArimaFitForecastOutcome(
                          FinalFitArgs(a, manual, req.order))
                 ELSE SarimaFitForecastOutcome(
                          FinalFitArgs(a, manual,
                                       [order |-> manual.order,
                                        seasonal_order |->
                                            manual.seasonal_order]))

\* The orders the forecaster call of a request submits to the estimation
\* engine, in order: the candidates of the search and the order of the
\* final fit, or the caller's orders alone.
EngineCalls(req, family) ==
    LET a == ApiCallArgs(req, family)
        seasonal_period == DetectSeasonality(Len(a.values), a.engine.acf)
        arima == ArimaCandidates(a.max_p, a.max_q)
        chosen == IF family = "arima"
                    THEN ArimaFindOptimalParameters(a.max_p, a.max_q,
                                                    a.engine.fits, PosInf)
                    ELSE SarimaFindOptimalParameters(seasonal_period, a.max_p,
                                                     a.max_q, a.max_P, a.max_Q,
                                                     a.engine.fits, PosInf)
        final == [order |-> chosen.order,
                  seasonal_order |-> chosen.seasonal_order]
    IN  IF req.auto_params \/ req.model = "compare"
          THEN (IF family = "arima"
                  THEN [k \in DOMAIN arima |->
                           [order |-> arima[k], seasonal_order |-> None]]
                  ELSE SarimaCandidates(seasonal_period, a.max_p, a.max_q,
                                        a.max_P, a.max_Q))
                   \o <<final>>
          ELSE <<[order |-> req.order,
                  seasonal_order |-> IF family = "arima" THEN None
                                     ELSE req.seasonal_order]>>

\* What a forecaster call was handed and what it asked of the engine.
ForecasterCall(req, family) ==
    [family |-> family, values |-> ApiCallArgs(req, family).values,
     fits |-> EngineCalls(req, family)]

\* `date.strftime('%Y-%m-%d')`: the day of a timestamp.
FormatDate(date) == date \div Day

\* `results.get(key, 0)`
GetOrZero(res, key) == IF key \in DOMAIN res THEN res[key] ELSE Ratio(0, 1)

\* The dictionary convert_single_result answers when the conversion raises.
DefaultJson ==
    [model |-> "unknown",
     forecast |-> [dates |-> <<>>, values |-> <<>>, lower_bound |-> <<>>,
                   upper_bound |-> <<>>],
     metrics |-> [rmse |-> Ratio(0, 1), mae |-> Ratio(0, 1),
                  mape |-> Ratio(0, 1), aic |-> Ratio(0, 1),
                  bic |-> Ratio(0, 1), r2 |-> Ratio(0, 1)],
     fitted_values |-> <<>>, residuals |-> <<>>]

\* convert_single_result(results, model_name)
ConvertSingleResult(res, model_name) ==
    IF "forecast" \notin DOMAIN res THEN DefaultJson
    ELSE LET rows == res.forecast.rows
         IN  [model |-> model_name,
              forecast |->
                  [dates |-> [k \in DOMAIN rows |-> FormatDate(rows[k].date)],
                   values |-> [k \in DOMAIN rows |-> rows[k].forecast],
                   lower_bound |-> [k \in DOMAIN rows |-> rows[k].lower_bound],
                   upper_bound |-> [k \in DOMAIN rows |-> rows[k].upper_bound]],
              metrics |-> [rmse |-> GetOrZero(res, "rmse"),
                           mae |-> GetOrZero(res, "mae"),
                           mape |-> GetOrZero(res, "mape"),
                           aic |-> GetOrZero(res, "aic"),
                           bic |-> GetOrZero(res, "bic"),
                           r2 |-> GetOrZero(res, "r2")],
              fitted_values |-> IF "fitted_values" \in DOMAIN res
                                  THEN res.fitted_values ELSE <<>>,
              residuals |-> IF "residuals" \in DOMAIN res
                              THEN res.residuals ELSE <<>>]

NoBody == [model |-> "none"]

ErrorResponse(status, error) ==
    [status |-> status, error |-> error, body |-> NoBody]

\* The end of api_forecast on what the forecaster calls returned (`got`):
\* `if not results` answers 500, else the converted results.  The results
\* of compare are a dictionary with two keys, which is never empty.
Respond(req, got) ==
    IF req.model = "compare"
      THEN [status |-> 200, error |-> "",
            body |-> [model |-> "compare",
                      models |-> [f \in {g \in {"arima", "sarima"} : got[g].ok}
                                     |-> ConvertSingleResult(got[f], f)]]]
    ELSE IF ~got[req.model].ok
      THEN ErrorResponse(500, "Forecasting failed")
    ELSE [status |-> 200, error |-> "",
          body |-> ConvertSingleResult(got[req.model], req.model)]

\* A thread that has just received its request.
NewThread(req) ==
    [req |-> req, pc |-> "start", pending |-> <<>>, local |-> NoResults,
     calls |-> <<>>,
     got |-> [f \in {"arima", "sarima"} |-> NoResults],
     response |-> ErrorResponse(0, "")]

\* The position of a thread after the forecaster call at the head of
\* `pending` returned.
AfterCall(pending) == IF Len(pending) > 1 THEN "call" ELSE "respond"

apiVars == <<pc, args, log, ret, results, ncalls, d_value, current_series>>

\* The validation: a 400 response, or on to the forecaster calls.
ApiValidate(t) ==
    /\ threads[t].pc = "start"
    /\ LET req == threads[t].req
           error == ApiValidation(req)
       IN  threads' =
             [threads EXCEPT ![t] =
                IF error # ""
                  THEN [@ EXCEPT !.pc = "done",
                                 !.response = ErrorResponse(400, error)]
                  ELSE [@ EXCEPT !.pc = "call",
                                 !.pending = Families(req.model)]]
    /\ UNCHANGED <<forecasters, stream>>
    /\ UNCHANGED apiVars
    /\ UNCHANGED searchVars

\* A forecaster call up to its `self.results = {...}`: it returns None, or
\* it has built its dictionary.
ApiCall(t) ==
    /\ threads[t].pc = "call"
    /\ LET th == threads[t]
           family == Head(th.pending)
           out == ForecasterOutcome(th.req, family).ret
           call == ForecasterCall(th.req, family)
       IN  threads' =
             [threads EXCEPT ![t] =
                IF out.ok
                  THEN [@ EXCEPT !.pc = "store", !.local = out,
                                 !.calls = Append(@, call)]
                  ELSE [@ EXCEPT !.pc = AfterCall(th.pending),
                                 !.calls = Append(@, call),
                                 !.got[family] = NoResults,
                                 !.pending = Tail(th.pending)]]
    /\ UNCHANGED <<forecasters, stream>>
    /\ UNCHANGED apiVars
    /\ UNCHANGED searchVars

\* `self.results = {...}`
ApiStore(t) ==
    /\ threads[t].pc = "store"
    /\ forecasters' =
         [forecasters EXCEPT ![Head(threads[t].pending)] = threads[t].local]
    /\ threads' = [threads EXCEPT ![t].pc = "return"]
    /\ UNCHANGED stream
    /\ UNCHANGED apiVars
    /\ UNCHANGED searchVars

\* `return self.results`
ApiReturn(t) ==
    /\ threads[t].pc = "return"
    /\ LET th == threads[t]
           family == Head(th.pending)
       IN  threads' =
             [threads EXCEPT ![t] =
                [@ EXCEPT !.pc = AfterCall(th.pending),
                          !.got[family] = forecasters[family],
                          !.pending = Tail(th.pending)]]
    /\ UNCHANGED <<forecasters, stream>>
    /\ UNCHANGED apiVars
    /\ UNCHANGED searchVars

\* `if not results: ...; return jsonify(json_results)`
ApiRespond(t) ==
    /\ threads[t].pc = "respond"
    /\ threads' =
         [threads EXCEPT ![t] =
            [@ EXCEPT !.pc = "done",
                      !.response = Respond(threads[t].req, threads[t].got)]]
    /\ UNCHANGED <<forecasters, stream>>
    /\ UNCHANGED apiVars
    /\ UNCHANGED searchVars

\* The server at start-up, before the requests are served.
InitServer ==
    /\ forecasters = [f \in {"arima", "sarima"} |-> NoResults]
    /\ stream = <<>>
    /\ pc = "serving"
    /\ args = [family |-> "api"]
    /\ cands = <<>>
    /\ i = 1
    /\ best_aic = PosInf
    /\ best_params = None
    /\ best_order = None
    /\ best_seasonal_order = None
    /\ log = <<>>
    /\ ret = NoResults
    /\ results = NoResults
    /\ ncalls = 0
    /\ d_value = 0
    /\ current_series = <<>>

\* One request.
InitApi ==
    /\ InitServer
    /\ threads \in {[t \in {1} |-> NewThread(req)] : req \in ApiRequests}

NextApi ==
    \/ \E t \in DOMAIN threads : ApiValidate(t)
    \/ \E t \in DOMAIN threads : ApiCall(t)
    \/ \E t \in DOMAIN threads : ApiStore(t)
    \/ \E t \in DOMAIN threads : ApiReturn(t)
    \/ \E t \in DOMAIN threads : ApiRespond(t)

SpecApi == InitApi /\ [][NextApi]_vars

\* Two manual requests of one family, served by two threads: they differ in
\* their series and in their order.
ConcurrentRequests ==
    [data : {[kind |-> "ok", values |-> ConstantSeries(MinPoints, v)] :
                v \in {2, 4}},
     model : {"arima", "sarima"},
     forecast_periods : {1},
     confidence_interval : {95},
     auto_params : {FALSE}, fast_mode : {TRUE},
     order : {<<1, 0, 1>>, <<1, 1, 1>>}, seasonal_order : {<<1, 1, 1, 12>>},
     engine : ApiEngines]

InitConcurrent ==
    /\ InitServer
    /\ threads \in {[t \in {1, 2} |-> NewThread(q[t])] :
                       q \in {r \in ConcurrentRequests \X ConcurrentRequests :
                                 r[1].model = r[2].model}}

SpecConcurrent == InitConcurrent /\ [][NextApi]_vars

(***************************************************************************)
(* app_flask: the /api/load_csv_data endpoint, with DataLoader's           *)
(* load_csv_data.                                                          *)
(*                                                                         *)
(* The uploaded file is a stream: a header line and one line per row, read *)
(* from the position the last read left it at.                             *)
(***************************************************************************)
CsvRows == [date : {0, Day}, value : {0, 2}]

\* The uploads: no file part, a file part without a name, a file of no
\* bytes, or a well-formed file of a date column and a numeric column.
CsvUploads ==
    {[family |-> "csv", upload |-> k, rows |-> <<>>] :
        k \in {"no_file", "no_name", "empty"}}
        \cup {[family |-> "csv", upload |-> "file", rows |-> r] :
                 r \in UNION {[1..n -> CsvRows] : n \in 0..MaxRows}}

\* pd.read_csv(file): it parses what is left of the stream, the first line
\* left being the header, and leaves the stream at its end; it raises
\* EmptyDataError when nothing is left.
ReadCsv(st) ==
    LET lines == (IF st.header THEN 1 ELSE 0) + Len(st.rows)
    IN  IF st.pos >= lines
          THEN [raises |-> TRUE, df |-> <<>>, pos |-> st.pos]
          ELSE [raises |-> FALSE,
                df |-> SubSeq(st.rows, st.pos + 1, Len(st.rows)),
                pos |-> lines]

\* DataLoader.load_csv_data(uploaded_file): the frame indexed by its date
\* column, or None when anything raises.
LoadCsvData(st) ==
    LET read == ReadCsv(st)
    IN  IF read.raises THEN [ok |-> FALSE, df |-> <<>>, pos |-> read.pos]
        ELSE [ok |-> TRUE, df |-> read.df, pos |-> read.pos]

\* `if 'file' not in request.files` and `if file.filename == ''`
CsvCheck ==
    /\ pc = "csv_start"
    /\ IF args.upload = "no_file"
         THEN ret' = ErrorResponse(400, "No file uploaded") /\ pc' = "done"
       ELSE IF args.upload = "no_name"
         THEN ret' = ErrorResponse(400, "No file selected") /\ pc' = "done"
       ELSE ret' = ret /\ pc' = "csv_read"
    /\ UNCHANGED <<args, log, results, ncalls, d_value, current_series,
                   threads, forecasters, stream>>
    /\ UNCHANGED searchVars

\* `df = pd.read_csv(file)`; what it raises is answered 500 by the outer
\* `except`.
CsvRead ==
    /\ pc = "csv_read"
    /\ LET read == ReadCsv(stream)
       IN  /\ log' = Append(log, [by |-> "api_load_csv_data",
                                  pos |-> stream.pos])
           /\ stream' = [stream EXCEPT !.pos = read.pos]
           /\ IF read.raises
                THEN ret' = ErrorResponse(500, "EmptyDataError")
                     /\ pc' = "done"
                ELSE ret' = ret /\ pc' = "csv_load"
    /\ UNCHANGED <<args, results, ncalls, d_value, current_series,
                   threads, forecasters>>
    /\ UNCHANGED searchVars

\* `df = data_loader.load_csv_data(file)` on the same stream, and the
\* response built from its frame.
CsvLoad ==
    /\ pc = "csv_load"
    /\ LET out == LoadCsvData(stream)
       IN  /\ log' = Append(log, [by |-> "load_csv_data",
                                  pos |-> stream.pos])
           /\ stream' = [stream EXCEPT !.pos = out.pos]
           /\ ret' = IF ~out.ok
                       THEN ErrorResponse(400, "Failed to process CSV file")
                       ELSE [status |-> 200, error |-> "",
                             body |-> [dates |-> [k \in DOMAIN out.df |->
                                                    FormatDate(out.df[k].date)],
                                       values |-> [k \in DOMAIN out.df |->
                                                     out.df[k].value],
                                       data_points |-> Len(out.df)]]
    /\ pc' = "done"
    /\ UNCHANGED <<args, results, ncalls, d_value, current_series,
                   threads, forecasters>>
    /\ UNCHANGED searchVars

InitCsv ==
    /\ args \in CsvUploads
    /\ stream = [rows |-> args.rows, header |-> args.upload = "file",
                 pos |-> 0]
    /\ pc = "csv_start"
    /\ cands = <<>>
    /\ i = 1
    /\ best_aic = PosInf
    /\ best_params = None
    /\ best_order = None
    /\ best_seasonal_order = None
    /\ log = <<>>
    /\ ret = NoResults
    /\ results = NoResults
    /\ ncalls = 0
    /\ d_value = 0
    /\ current_series = <<>>
    /\ threads = <<>>
    /\ forecasters = <<>>

NextCsv ==
    \/ CsvCheck
    \/ CsvRead
    \/ CsvLoad

SpecCsv == InitCsv /\ [][NextCsv]_vars
(***************************************************************************)
(* Properties of the order searches.                                       *)
(***************************************************************************)
\* The estimation calls that completed without raising.
Fitted == {k \in DOMAIN log : ~log[k].raised}

\* a comes before b in the enumeration with the first component outermost.
LexLess(a, b) ==
    \/ a[1] < b[1]
    \/ a[1] = b[1] /\ a[2] < b[2]
    \/ a[1] = b[1] /\ a[2] = b[2] /\ a[3] < b[3]

ArimaDone == pc = "done" /\ args.family = "arima"
SarimaDone == pc = "done" /\ args.family = "sarima"

\* C1: whenever at least one candidate of the ARIMA search fits, whatever
\* AIC values the fits report, the returned order is a fitted candidate
\* whose AIC no fitted candidate undercuts, and the first such candidate in
\* enumeration order (p outermost, q innermost) among those with that AIC.
C1_ReturnsFirstMinimumAic ==
    (ArimaDone /\ Fitted # {}) =>
        \E k \in Fitted :
            /\ log[k].order = ret
            /\ \A j \in Fitted :
                /\ ~FloatLt(log[j].aic, log[k].aic)
                /\ (j # k /\ FloatEq(log[j].aic, log[k].aic))
                       => LexLess(log[k].order, log[j].order)

\* C2: the order returned by the ARIMA search is an enumerated candidate or
\* the fallback (1,1,1), and it is within the bounds: 0 <= p <= max_p,
\* 0 <= d <= max_d, 0 <= q <= max_q.
C2_ReturnedOrderWithinBounds ==
    ArimaDone =>
        /\ \/ \E k \in DOMAIN log : log[k].order = ret
           \/ ret = <<1, 1, 1>>
        /\ ret[1] \in 0..args.max_p
        /\ ret[2] \in 0..args.max_d
        /\ ret[3] \in 0..args.max_q

\* C3: the ARIMA search asks for one fit per member of the cross-product
\* [0,max_p] x [0,max_d] x [0,max_q], in enumeration order and never twice,
\* and returns after exactly (max_p+1)*(max_d+1)*(max_q+1) estimation calls
\* (18 for bounds 2/1/2), whichever of the fits raised.
C3_OneFitPerCandidate ==
    args.family = "arima" =>
        LET n == (args.max_p + 1) * (args.max_d + 1) * (args.max_q + 1)
        IN  /\ Len(log) <= n
            /\ \A j, k \in DOMAIN log :
                   j < k => LexLess(log[j].order, log[k].order)
            /\ \A k \in DOMAIN log :
                /\ log[k].order[1] \in 0..args.max_p
                /\ log[k].order[2] \in 0..args.max_d
                /\ log[k].order[3] \in 0..args.max_q
            /\ pc = "done" => Len(log) = n
            /\ Len(Product3(2, 1, 2)) = 18

\* An ARIMA search has returned after a fit that raised was followed by
\* fits of the later candidates.
C3_Witness ==
    /\ ArimaDone
    /\ Len(log) = 4
    /\ log[1].raised
    /\ log[2].raised
    /\ ~log[3].raised
    /\ ~log[4].raised

\* C4: when every fit of a search raised, the ARIMA search returns (1,1,1)
\* and the SARIMA search returns (1,1,1) with (1,1,1,seasonal_period); the
\* search returns normally, no error reaches the caller.
C4_FallbackWhenEveryFitFails ==
    /\ pc \in {"arima_loop", "sarima_build", "sarima_loop", "done"}
    /\ (ArimaDone /\ Fitted = {}) => ret = <<1, 1, 1>>
    /\ (SarimaDone /\ Fitted = {}) =>
           ret = << <<1, 1, 1>>, <<1, 1, 1, args.seasonal_period>> >>

\* A SARIMA search with period 7 has returned after all its fits raised.
C4_Witness ==
    /\ SarimaDone
    /\ args.seasonal_period = 7
    /\ Len(log) >= 3
    /\ Fitted = {}

\* The in-bounds combinations that satisfy both sum rules.
AllowedCombinations ==
    LET inBounds ==
            {[order |-> <<p, d, q>>,
              seasonal_order |-> <<P, D, Q, args.seasonal_period>>] :
                p \in 0..args.max_p, d \in 0..args.max_d, q \in 0..args.max_q,
                P \in 0..args.max_P, D \in 0..args.max_D, Q \in 0..args.max_Q}
    IN  {c \in inBounds :
            /\ c.order[1] + c.order[2] + c.order[3] <= 4
            /\ c.seasonal_order[1] + c.seasonal_order[2]
                   + c.seasonal_order[3] <= 3}

Submitted(k) == [order |-> log[k].order, seasonal_order |-> log[k].seasonal_order]

\* C5: every pair the SARIMA search submits to the estimation engine has
\* p+d+q <= 4 and P+D+Q <= 3, lies within the bounds and carries the
\* caller's seasonal_period; every in-bounds combination satisfying both
\* rules is submitted exactly once; and the list of combinations is
\* complete before the first estimation call.
C5_OnlyPrunedCombinationsSubmitted ==
    args.family = "sarima" =>
        LET allowed == AllowedCombinations
            submitted == {Submitted(k) : k \in DOMAIN log}
        IN  /\ submitted \subseteq allowed
            /\ Cardinality(submitted) = Len(log)
            /\ pc = "done" => submitted = allowed
            /\ pc = "sarima_build" => log = <<>>
            /\ pc # "sarima_build" =>
                   /\ {cands[k] : k \in DOMAIN cands} = allowed
                   /\ Len(cands) = Cardinality(allowed)

\* A SARIMA search with max_p = 5 has returned: p = 5 was pruned and the
\* five remaining combinations were submitted.
C5_Witness ==
    /\ SarimaDone
    /\ args.max_p = 5
    /\ Len(log) = 5

(***************************************************************************)
(* Properties of the seasonal-period detector.                             *)
(***************************************************************************)
DetectDone == pc = "done" /\ args.family = "detect"

\* The periods of the fixed list that are at most half the series length.
ConsideredPeriods == {p \in {4, 12, 24, 52} : 2 * p <= args.n}

\* The autocorrelation at lag p is, in absolute value, strictly above 0.3.
Qualifies(p) ==
    /\ args.acf[p].kind = "fin"
    /\ \/ args.acf[p].v > 30
       \/ args.acf[p].v < -30

Succeeded == pc = "done" /\ ret.ok

ArimaOrSarima == args.family \in {"arima", "sarima"}

\* C7: the forecast record of a successful fit_forecast call (ARIMA, SARIMA
\* or Prophet) with horizon h >= 1 has exactly h rows.
C7_ForecastHasHorizonRows ==
    Succeeded => Len(ret.forecast.rows) = args.forecast_periods

\* A SARIMA call with horizon 2 on a weekly series has succeeded.
C7_Witness ==
    /\ Succeeded
    /\ args.family = "sarima"
    /\ args.index = RegularIndex(7 * Day, SeriesLen)
    /\ args.forecast_periods = 2

\* C8: in the record of a successful ARIMA / SARIMA call, row k carries the
\* engine's mean, lower and upper value of step k, so that with an engine
\* whose intervals contain the mean every row has
\* lower_bound <= forecast <= upper_bound.
C8_BoundsOrderedAndAligned ==
    (Succeeded /\ ArimaOrSarima) =>
        \A k \in DOMAIN ret.forecast.rows :
            LET row == ret.forecast.rows[k]
                level == log[3].level
            IN  /\ row.forecast = args.engine.path[k]
                /\ row.lower_bound = row.forecast - (level - 50) * k
                /\ row.upper_bound = row.forecast + (level - 50) * k
                /\ row.lower_bound <= row.forecast
                /\ row.forecast <= row.upper_bound

\* An ARIMA call has succeeded on a mean path that rises from 0 to 10.
C8_Witness ==
    /\ Succeeded
    /\ args.family = "arima"
    /\ args.forecast_periods = 2
    /\ args.engine.path[1] = 0
    /\ args.engine.path[2] = 10

\* C9: a successful ARIMA / SARIMA call asks the engine for the interval at
\* the caller's confidence_level, and the bounds of its record are the
\* engine's bounds at that level.
C9_ConfidenceLevelThreaded ==
    (Succeeded /\ ArimaOrSarima) =>
        /\ \A k \in DOMAIN log :
               log[k].op = "conf_int" => log[k].level = args.confidence_level
        /\ \A k \in DOMAIN ret.forecast.rows :
            LET row == ret.forecast.rows[k]
            IN  /\ row.lower_bound
                     = row.forecast - (args.confidence_level - 50) * k
                /\ row.upper_bound
                     = row.forecast + (args.confidence_level - 50) * k

\* The index of the last call is a timestamp index of at least three
\* observations, each `step` after the one before.
RegularlySampled(step) ==
    /\ args.index.kind = "ts"
    /\ Len(args.index.times) >= 3
    /\ \A k \in 2..Len(args.index.times) :
           args.index.times[k] = args.index.times[k - 1] + step

\* C10: for a series sampled at a regular interval, the timestamps of the
\* record of a successful ARIMA / SARIMA call start one interval after the
\* last observation and go up by one interval per row.
C10_TimestampsOneIntervalApart ==
    \A step \in {1, 24, 168} :
        (Succeeded /\ ArimaOrSarima /\ RegularlySampled(step)) =>
            \A k \in DOMAIN ret.forecast.rows :
                ret.forecast.rows[k].date
                    = args.index.times[Len(args.index.times)] + k * step


(***************************************************************************)
(* Properties of the failure handling and of the in-sample metrics.        *)
(***************************************************************************)
EngineRaised == args.engine.fit_raises \/ args.engine.forecast_raises

\* What a result dictionary holds besides the model: the forecast, the
\* metrics, the fitted values and the residuals.
ResultFields ==
    {"forecast", "mse", "rmse", "mae", "mape", "fitted_values", "residuals"}

\* C11: when the engine's fit or forecast raises inside the ARIMA or SARIMA
\* fit_forecast, the call returns None; and whatever dictionary a call
\* returns holds the forecast, the metrics, the fitted values and the
\* residuals.
C11_EngineFailureReturnsNone ==
    (pc = "done" /\ ArimaOrSarima) =>
        /\ EngineRaised => ~ret.ok
        /\ ret.ok => ResultFields \subseteq DOMAIN ret

C11_Witness ==
    /\ pc = "done"
    /\ args.family = "sarima"
    /\ args.engine.forecast_raises
    /\ ~ret.ok


\* The observations the MAPE is computed over.
MapeActuals ==
    IF ArimaOrSarima THEN DropFirst(args.values) ELSE args.values

ZeroActual == \E k \in DOMAIN MapeActuals : MapeActuals[k] = 0

\* C13: when an in-sample actual value used in the MAPE computation is
\* zero, fit_forecast (ARIMA, SARIMA, Prophet) reports an error or yields a
\* NaN MAPE; a successful result never carries a finite or infinite MAPE.
C13_ZeroActualSurfaced ==
    (pc = "done" /\ ~EngineRaised /\ ZeroActual) =>
        (~ret.ok \/ ret.mape.kind = "nan")

\* The dates of the forecast record.
ForecastDates == [k \in DOMAIN ret.forecast.rows |-> ret.forecast.rows[k].date]

\* A timestamp index whose frequency pd.infer_freq cannot name.
FrequencyNotInferred ==
    /\ args.index.kind = "ts"
    /\ ~InferFreqRaises(args.index.times)
    /\ InferFreq(args.index.times) = 0

\* C18 as stated: with a timestamp index whose frequency cannot be inferred,
\* the ARIMA and SARIMA forecast record is indexed by the integers after the
\* last position.
C18_IntegerFallback ==
    (Succeeded /\ ArimaOrSarima /\ FrequencyNotInferred) =>
        ForecastDates = IntegerDates(args.index, args.forecast_periods)

\* C18 amended: with a timestamp index whose frequency cannot be inferred,
\* the ARIMA and SARIMA forecast record is indexed by daily timestamps
\* starting one day after the last observation; the integers are used only
\* when the index holds no timestamps.
C18_DailyFallback ==
    (Succeeded /\ ArimaOrSarima) =>
        /\ FrequencyNotInferred =>
              ForecastDates = DateRange(Last(args.index.times) + Day,
                                        args.forecast_periods, Day)
        /\ args.index.kind = "int" =>
              ForecastDates = IntegerDates(args.index, args.forecast_periods)

C18_Witness ==
    /\ Succeeded
    /\ args.family = "sarima"
    /\ FrequencyNotInferred
    /\ args.forecast_periods >= 2

\* The observations lost to differencing at an order: d, and D seasons of
\* period s.
PointsLost ==
    args.order[2] +
        (IF args.seasonal_order = None THEN 0
         ELSE args.seasonal_order[2] * args.seasonal_order[4])

\* The leading observations left out of the metrics.
PointsExcluded == Len(args.values) - ret.mse.den

\* C19: the number of leading points the ARIMA and SARIMA metrics leave out
\* equals the number of points lost to differencing, for every d and D.
C19_ExcludesPointsLostToDifferencing ==
    (Succeeded /\ ArimaOrSarima) => PointsExcluded = PointsLost


(***************************************************************************)
(* Properties of make_stationary.                                          *)
(***************************************************************************)
\* The series first-differenced n times, the leading undefined value
\* dropped each time.
RECURSIVE Differenced(_, _)
Differenced(series, n) ==
    IF n = 0 THEN series
    ELSE LET prev == Differenced(series, n - 1)
         IN  [k \in 1..(Len(prev) - 1) |-> prev[k + 1] - prev[k]]

TestedAt(k, verdict) ==
    \E j \in DOMAIN log :
        /\ log[j].d = k
        /\ ~log[j].raised
        /\ log[j].is_stationary = verdict

\* C17: make_stationary(series, max_diff) returns (s, d) with
\* 0 <= d <= max_diff, s the series differenced exactly d times, every
\* shallower depth tested non-stationary, and s tested stationary or
\* d = max_diff; it never differences more than max_diff times and runs at
\* most max_diff stationarity tests.
C17_MakeStationary ==
    /\ d_value <= args.max_diff
    /\ Len(log) <= args.max_diff
    /\ pc = "done" =>
        /\ ret[2] >= 0 /\ ret[2] <= args.max_diff
        /\ ret[1] = Differenced(args.series, ret[2])
        /\ \A k \in 0..(ret[2] - 1) : TestedAt(k, FALSE)
        /\ TestedAt(ret[2], TRUE) \/ ret[2] = args.max_diff

C17_Witness ==
    /\ pc = "done"
    /\ args.max_diff = 2
    /\ ret[2] = 2
    /\ Len(log) = 2
    /\ Len(ret[1]) = SeriesLen - 2


(***************************************************************************)
(* Properties of get_residual_analysis.                                    *)
(***************************************************************************)
\* The answer of the Ljung-Box computation of the call.
LjungBox == log[Len(log)]

AnalysisEnded == pc \in {"done", "raised"} /\ results.ok

\* C14: when the Ljung-Box computation fails, get_residual_analysis (ARIMA
\* and SARIMA) still returns a bundle, with ljung_box_stat = 0 and
\* ljung_box_pvalue = 1, and does not propagate the error.
C14_LjungBoxFailureFallsBack ==
    (AnalysisEnded /\ LjungBox.raises) =>
        /\ pc = "done"
        /\ ret.ok
        /\ ret.ljung_box_stat = FallbackStat
        /\ ret.ljung_box_pvalue = FallbackPValue

\* C20: the ljung_box_stat and ljung_box_pvalue that get_residual_analysis
\* (ARIMA and SARIMA) reports are the entries for lag 10, the last of the
\* lags 1..10.
C20_ReportsLastLag ==
    (AnalysisEnded /\ pc = "done" /\ Len(LjungBox.lb_stat) = Lags) =>
        /\ ret.ljung_box_stat = LjungBox.lb_stat[Lags]
        /\ ret.ljung_box_pvalue = LjungBox.lb_pvalue[Lags]


(***************************************************************************)
(* Properties of auto_fit_forecast.                                        *)
(***************************************************************************)
\* Two calls answer alike: both None, or the same orders, metrics, AIC and
\* BIC.
SameAnswer(r1, r2) ==
    /\ r1.ok = r2.ok
    /\ r1.ok =>
        /\ r1.order = r2.order
        /\ r1.seasonal_order = r2.seasonal_order
        /\ r1.rmse = r2.rmse /\ r1.mae = r2.mae /\ r1.mape = r2.mape
        /\ r1.aic = r2.aic /\ r1.bic = r2.bic

FailedCalls(req) ==
    {f \in {"arima", "sarima"} :
        /\ req.model \in {f, "compare"}
        /\ ~ForecasterOutcome(req, f).ret.ok}

Answered(t) ==
    /\ threads[t].pc = "done"
    /\ ApiValidation(threads[t].req) = ""

\* C12: in every mode of /api/forecast (arima, sarima, compare; automatic
\* or manual orders) a failure of the final fit or forecast is answered
\* with an error response, never with a success response.
C12_FitFailureIsAnError ==
    \A t \in DOMAIN threads :
        (Answered(t) /\ FailedCalls(threads[t].req) # {}) =>
            threads[t].response.status # 200

\* The response of a request that is served alone.
OwnResponse(req) ==
    Respond(req, [f \in {"arima", "sarima"} |->
                     IF req.model \in {f, "compare"}
                       THEN ForecasterOutcome(req, f).ret
                       ELSE NoResults])

\* C16: when two requests for one family are served by two threads, the
\* response of each holds the forecast, the metrics, the fitted values and
\* the residuals computed from its own series and orders.
C16_ResponsesAreOwn ==
    \A t \in DOMAIN threads :
        Answered(t) => threads[t].response = OwnResponse(threads[t].req)

(***************************************************************************)
(* Properties of the search space of the seasonal search.                  *)
(***************************************************************************)
\* A request answered by the automatic SARIMA search at its default bounds.
SearchedAtDefaults(t) ==
    /\ Answered(t)
    /\ threads[t].req.model = "sarima"
    /\ threads[t].req.auto_params
    /\ ~threads[t].req.fast_mode

\* The size of the cross-product the search of a request enumerates before
\* the two sum rules are applied.
UnprunedSize(req) ==
    LET b == ApiBounds(req, "sarima")
    IN  CrossSize([max_p |-> b.max_p, max_d |-> SarimaDefaultMaxD,
                   max_q |-> b.max_q, max_P |-> b.max_P,
                   max_D |-> SarimaDefaultMaxSeasonalD, max_Q |-> b.max_Q])

\* C21: at the default bounds of the seasonal search (3, 2, 3, 2, 1, 2) the
\* cross-product of the non-seasonal and seasonal orders, before the sum
\* rules are applied, holds 648 combinations.
C21_UnprunedIs648 ==
    \A t \in DOMAIN threads :
        SearchedAtDefaults(t) => UnprunedSize(threads[t].req) = 648

\* C21, amended: the cross-product holds 4*3*4 * 3*2*3 = 864 combinations,
\* of which the sum rules keep fewer.
C21_UnprunedIs864 ==
    \A t \in DOMAIN threads :
        SearchedAtDefaults(t) =>
            /\ UnprunedSize(threads[t].req) = 864
            /\ Len(SarimaCandidates(DefaultPeriod, 3, 3, 2, 2)) < 864
            /\ LET b == ApiBounds(threads[t].req, "sarima")
               IN  <<b.max_p, b.max_q, b.max_P, b.max_Q>> = <<3, 3, 2, 2>>

C21_Witness ==
    \E t \in DOMAIN threads :
        /\ SearchedAtDefaults(t)
        /\ threads[t].response.status = 200

(***************************************************************************)
(* Properties of the orders that reach the estimation engine.              *)
(***************************************************************************)
\* The seasonal orders the forecaster calls of a thread have submitted.
SubmittedSeasonalOrders(t) ==
    LET calls == threads[t].calls
        sarima == {j \in DOMAIN calls : calls[j].family = "sarima"}
    IN  UNION {{calls[j].fits[k].seasonal_order :
                   k \in DOMAIN calls[j].fits} : j \in sarima}

\* C22: every seasonal order that reaches the estimation engine (from the
\* automatic search, from the caller's seasonal_params or from the
\* fallback) has a period of at least 2 and no negative component.
C22_SeasonalOrdersAreValid ==
    \A t \in DOMAIN threads :
        \A s \in SubmittedSeasonalOrders(t) :
            /\ s[4] >= 2
            /\ \A k \in 1..3 : s[k] >= 0

(***************************************************************************)
(* Properties of what the module-level forecasters keep.                   *)
(***************************************************************************)
\* The forecaster calls of a request that has been answered.
ServedBy(t) ==
    {f \in {"arima", "sarima"} :
        Answered(t) /\ threads[t].req.model \in {f, "compare"}}

\* C23: once a request has been answered, the forecaster that computed it
\* holds no fitted model, residuals or forecast of that computation for a
\* later request or call to observe.
C23_NothingRetained ==
    \A t \in DOMAIN threads :
        \A f \in ServedBy(t) : forecasters[f] = NoResults

(***************************************************************************)
(* Properties of the fast mode of /api/forecast.                           *)
(***************************************************************************)
\* The orders an automatic call submitted before its final fit.
SearchedOrders(call) ==
    [k \in 1..(Len(call.fits) - 1) |-> call.fits[k].order]

\* The series a request in fast mode must hand over: its last 500 points
\* when it has more, else all of it.
MostRecent(req) ==
    LET data == req.data.values
    IN  IF req.fast_mode /\ Len(data) > 500
          THEN SubSeq(data, Len(data) - 499, Len(data))
          ELSE data

\* The candidates of an ARIMA search in and out of fast mode.
ExpectedSearch(req) ==
    IF req.fast_mode THEN Product3(3, 3, 3) ELSE Product3(5, 3, 5)

AutomaticArima(t, j) ==
    /\ threads[t].calls[j].family = "arima"
    /\ threads[t].req.auto_params \/ threads[t].req.model = "compare"

\* C24: in fast mode the forecaster is handed the most recent 500 points of
\* a longer series and the automatic ARIMA search runs with the bounds
\* 3/3/3; out of fast mode it is handed the whole series and the search
\* runs with the defaults 5/3/5.
C24_FastModeCapsSeriesAndSearch ==
    \A t \in DOMAIN threads :
        \A j \in DOMAIN threads[t].calls :
            /\ threads[t].calls[j].values = MostRecent(threads[t].req)
            /\ AutomaticArima(t, j) =>
                   SearchedOrders(threads[t].calls[j])
                       = ExpectedSearch(threads[t].req)

(***************************************************************************)
(* Properties of the validation of /api/forecast.                          *)
(***************************************************************************)
\* The requests the endpoint must refuse: no body or no data, fewer than 10
\* points, a horizon outside 1..1000, a confidence outside 50..99, an
\* unknown model, or Prophet.
MustBeRefused(req) ==
    \/ req.data.kind \in {"no_json", "no_data"}
    \/ req.data.kind = "ok" /\ Len(req.data.values) < 10
    \/ req.forecast_periods \notin 1..1000
    \/ req.confidence_interval \notin 50..99
    \/ req.model \notin {"arima", "sarima", "compare"}

\* C25: a request that must be refused is answered 400 by its first step,
\* without any call that reaches the estimation engine and without any
\* change to the module-level forecasters.
C25_RefusedBeforeAnyEstimation ==
    \A t \in DOMAIN threads :
        (MustBeRefused(threads[t].req) /\ threads[t].pc # "start") =>
            /\ threads[t].pc = "done"
            /\ threads[t].response.status = 400
            /\ threads[t].calls = <<>>
            /\ forecasters = [f \in {"arima", "sarima"} |-> NoResults]

C25_Witness ==
    \E t \in DOMAIN threads :
        /\ threads[t].pc = "done"
        /\ threads[t].response.status = 400
        /\ threads[t].req.model = "prophet"
        /\ threads[t].req.data.kind = "ok"
        /\ Len(threads[t].req.data.values) > 500
        /\ threads[t].req.forecast_periods = 1
        /\ threads[t].req.confidence_interval = 95

(***************************************************************************)
(* Properties of the engine calls of repeated automatic forecasts.         *)
(***************************************************************************)
\* The final fits of one auto_fit_forecast call.
FinalFits(entry) ==
    {k \in DOMAIN entry.calls : entry.calls[k].op = "fit"}

FittedOrders ==
    {IF args.family = "arima" THEN log[k].order
     ELSE <<log[k].order, log[k].seasonal_order>> : k \in Fitted}

\* C27: when at least one fit of a search completed, whatever AIC it
\* reported (inf and NaN included), the search returns an order whose fit
\* completed; the fallback is returned only when every fit raised.
C27_FallbackOnlyWhenEveryFitRaised ==
    (pc = "done" /\ args.family \in {"arima", "sarima"} /\ Fitted # {}) =>
        ret \in FittedOrders

(***************************************************************************)
(* Properties of the diagnostics after a failed fit.                       *)
(***************************************************************************)
\* The fit_forecast calls made on the forecaster, by their place in log.
FitCalls == {k \in DOMAIN log : "op" \in DOMAIN log[k]}

\* The last fit_forecast call on the forecaster failed.
LastFitFailed ==
    /\ FitCalls # {}
    /\ \E k \in FitCalls :
           /\ \A j \in FitCalls : j <= k
           /\ ~log[k].ok

\* C28: get_residual_analysis made after a fit_forecast call that returned
\* None answers None, as on a forecaster that never fitted, and not the
\* analysis of an earlier fit.
C28_NoDiagnosticsAfterFailedFit ==
    (pc = "done" /\ LastFitFailed) => ret = NoResults

(***************************************************************************)
(* Properties of the range of the seasonal-period detector.                *)
(***************************************************************************)
\* C29: detect_seasonality returns a member of {4, 12, 24, 52}, 12 when the
\* series is too short for any candidate or its autocorrelation is
\* undefined, and never a period greater than its max_period argument.
C29_PeriodWithinMaxPeriod ==
    DetectDone =>
        /\ ret \in {4, 12, 24, 52}
        /\ (ConsideredPeriods = {} \/ \A p \in Periods : args.acf[p] = NaN)
               => ret = 12
        /\ ret <= args.max_period

(***************************************************************************)
(* Properties of the /api/load_csv_data endpoint.                          *)
(***************************************************************************)
\* C30: a well-formed CSV file posted to /api/load_csv_data is answered
\* with its rows as dates and values: every read of the uploaded stream in
\* the handler starts at its beginning, so the loader never reads an
\* exhausted stream.
C30_WellFormedCsvIsLoaded ==
    (pc = "done" /\ args.family = "csv" /\ args.upload = "file") =>
        /\ ret.status = 200
        /\ ret.body.values = [k \in DOMAIN args.rows |-> args.rows[k].value]
        /\ ret.body.dates =
               [k \in DOMAIN args.rows |-> FormatDate(args.rows[k].date)]
        /\ \A k \in DOMAIN log : log[k].pos = 0

=============================================================================
